---- MODULE Spec2Model ----
(***************************************************************************)
(* Model of the node storage service: the local result endpoints           *)
(* (project/routers/local.py), the tag ledger they keep in the relational  *)
(* store (Result, Tag, TaggedResult) and the object store they write.      *)
(* Every HTTP request is a process in a slot of Requests; each of its      *)
(* calls to the hub, the object store or the relational store is one step. *)
(***************************************************************************)
EXTENDS Integers, Sequences, FiniteSets, TLC

(***************************************************************************)
(* Bounds of the model.                                                    *)
(***************************************************************************)
\* How many requests arrive in one behaviour.
MaxRequests == 3

\* The request slots: at most two requests are in flight at once.
Requests == {"r1", "r2"}

(***************************************************************************)
(* The tag grammar: _TAG_PATTERN and is_valid_tag.                         *)
(* A tag is a sequence of one-character strings.                           *)
(***************************************************************************)
\* The character class [a-z0-9].
LowerAlnum ==
    {"a", "b", "c", "d", "e", "f", "g", "h", "i", "j", "k", "l", "m",
     "n", "o", "p", "q", "r", "s", "t", "u", "v", "w", "x", "y", "z",
     "0", "1", "2", "3", "4", "5", "6", "7", "8", "9"}

\* The character class [a-z0-9-].
LowerAlnumHyphen == LowerAlnum \cup {"-"}

\* The quantifier bounds of the pattern: {1,2} and {,30}.
ShortMin == 1
ShortMax == 2
MiddleMax == 30

\* One quantified item of a regular expression: cls{lo,hi}.
Item(cls, lo, hi) == [cls |-> cls, lo |-> lo, hi |-> hi]

\* [a-z0-9]{1,2}
ShortAlternative == << Item(LowerAlnum, ShortMin, ShortMax) >>

\* [a-z0-9][a-z0-9-]{,30}[a-z0-9]
LongAlternative_Wide ==
    << Item(LowerAlnum, 1, 1),
       Item(LowerAlnumHyphen, 0, MiddleMax + 1),
       Item(LowerAlnum, 1, 1) >>

LongAlternative ==
    << Item(LowerAlnum, 1, 1),
       Item(LowerAlnumHyphen, 0, MiddleMax),
       Item(LowerAlnum, 1, 1) >>

\* The two alternatives of _TAG_PATTERN.
TagPattern == {ShortAlternative, LongAlternative}

\* The positions of s that follow a run of k characters of cls starting at i,
\* for every k in lo..hi that the text allows.
RunEnds(item, s, i) ==
    { j \in (i + item.lo) .. (i + item.hi) :
        /\ j <= Len(s) + 1
        /\ \A k \in i .. (j - 1) : s[k] \in item.cls }

\* The positions of s at which a match of items[n..] that starts at one of
\* the positions `from` can end (the regular expression engine, run as a set
\* of positions).
RECURSIVE MatchEnds(_, _, _, _)
MatchEnds(items, n, s, from) ==
    IF n > Len(items)
    THEN from
    ELSE MatchEnds(items, n + 1, s,
                   UNION { RunEnds(items[n], s, i) : i \in from })

\* re.fullmatch: some alternative matches all of s, from its first character
\* to its last.
FullMatch(pattern, s) ==
    \E alt \in pattern : (Len(s) + 1) \in MatchEnds(alt, 1, s, {1})

is_valid_tag(tag) == FullMatch(TagPattern, tag)

(***************************************************************************)
(* The world of the service: the hub's projects and analyses, the callers, *)
(* and the values a request can carry.                                     *)
(***************************************************************************)
Projects == {"p1", "p2"}

\* The analyses the hub knows and the project of each (core_client.get_analysis).
Analyses == {"a1", "a2", "a3"}

ProjectOfAnalysis(analysis) == IF analysis = "a3" THEN "p2" ELSE "p1"

\* settings.hub_adapter_client_id
HubAdapterClientId == "hub-adapter"

\* filename or "data.bin"; "" stands for no filename (None or empty).
EffectiveFilename_Placeholder(filename) == "data.bin"

EffectiveFilename_Verbatim(filename) == filename

EffectiveFilename(filename) == IF filename = "" THEN "data.bin" ELSE filename

\* f"local/{project_id}/{object_id}", as its path segments.
ObjectName_Unscoped(project_id, object_id) == << "local", "", object_id >>

ObjectName(project_id, object_id) == << "local", project_id, object_id >>

\* prefix=f"local/{project_id}/"
HasPrefix_Any(object_name, project_id) == TRUE

HasPrefix(object_name, project_id) ==
    SubSeq(object_name, 1, 2) = << "local", project_id >>

\* object_.object_name.split("/")[-1]
LastSegment(object_name) == object_name[Len(object_name)]

\* A byte of a file as a client sends it.  Every byte of the model has
\* these fields; key and nonce are used by the bytes of an encrypted unit.
Plain(v) == [ kind |-> "plain", key |-> {}, nonce |-> 0, val |-> << v >> ]

\* An empty bucket.
NoBlobs == [ name \in {} |-> << >> ]

VARIABLES
    hub,             \* the projects that exist on the hub
    bucket_files,    \* the bucket files in the hub's storage, by id
    objects,         \* the names of the objects in the bucket
    written,         \* history: every object name ever put into the bucket
    blobs,           \* the bytes of each object in the bucket
    results,         \* the rows of table Result
    tags,            \* the rows of table Tag
    tagged_results,  \* the rows of table TaggedResult
    next_object_id,  \* the next value of uuid.uuid4()
    req,             \* the request in each slot
    started,         \* how many requests have arrived
    tag_in,          \* the input of is_valid_tag under SpecGrammar
    tag_out          \* its answer, "none" before the call

vars ==
    << hub, bucket_files, objects, written, blobs, results, tags, tagged_results, next_object_id,
       req, started, tag_in, tag_out >>

hub_vars == << hub, bucket_files >>
store_vars == << objects, written, blobs >>
ledger_vars == << results, tags, tagged_results >>
grammar_vars == << tag_in, tag_out >>

(***************************************************************************)
(* Requests.  pc names the call the handler makes next; outcome is "none"  *)
(* while the request is in flight and the response afterwards.             *)
(***************************************************************************)
IdleRequest ==
    [ kind |-> "idle", pc |-> "idle", outcome |-> "none",
      client_id |-> "", project_id |-> "", object_id |-> 0,
      has_tag |-> FALSE, tag |-> << >>, filename |-> "",
      result |-> 0, result_created |-> FALSE,
      tag_row |-> 0, tag_created |-> FALSE,
      listing |-> {}, object_ids |-> {},
      data |-> << >>, body |-> << >>, response |-> {},
      node |-> "", peer |-> "", chunk_size |-> 0, first_bytes |-> << >>,
      offset |-> 0, handles |-> {}, failed_call |-> "" ]

InFlight(r) == req[r].kind # "idle" /\ req[r].outcome = "none"

Free(r) == ~InFlight(r)

\* The request ends with a response.
Respond(rec, outcome) == [rec EXCEPT !.outcome = outcome]

\* The smallest row id that no row of the table and no request holds.
FreshId(used) ==
    CHOOSE i \in 1 .. (Cardinality(used) + 1) :
        /\ i \notin used
        /\ \A j \in 1 .. (i - 1) : j \in used

(***************************************************************************)
(* The relational store: tables Result, Tag and TaggedResult with their    *)
(* uniqueness constraints and foreign keys, and peewee's get_or_create,    *)
(* which is a SELECT, then an INSERT in a transaction of its own, then on  *)
(* IntegrityError the SELECT again.                                        *)
(***************************************************************************)
RowIds(table) == { row.id : row \in table }

HeldResultIds == { req[r].result : r \in Requests }
HeldTagIds == { req[r].tag_row : r \in Requests }

\* Result: unique (client_id, object_id).
ResultKeyTaken_Never(client_id, object_id) == FALSE

ResultKeyTaken(client_id, object_id) ==
    \E row \in results : row.client_id = client_id /\ row.object_id = object_id

\* Tag: unique (tag_name, project_id).
TagKeyTaken(tag_name, project_id) ==
    \E row \in tags : row.tag_name = tag_name /\ row.project_id = project_id

\* TaggedResult: unique (tag, result), both foreign keys.
LinkKeyTaken(tag_row, result) ==
    \E row \in tagged_results : row.tag = tag_row /\ row.result = result

ForeignKeysHold(tag_row, result) ==
    tag_row \in RowIds(tags) /\ result \in RowIds(results)

\* ON DELETE CASCADE: the TaggedResult rows that survive a delete.
Cascade_Kept(links, results_left, tags_left) == links

Cascade(links, results_left, tags_left) ==
    { row \in links :
        row.tag \in RowIds(tags_left) /\ row.result \in RowIds(results_left) }

\* The rows a SELECT with these field values finds.
SelectResult_Nothing(client_id, object_id, filename) == {}

SelectResult(client_id, object_id, filename) ==
    { row \in results :
        /\ row.client_id = client_id
        /\ row.object_id = object_id
        /\ row.filename = filename }

SelectTag(tag_name, project_id) ==
    { row \in tags : row.tag_name = tag_name /\ row.project_id = project_id }

SelectLink_Nothing(tag_row, result) == {}

SelectLink(tag_row, result) ==
    { row \in tagged_results : row.tag = tag_row /\ row.result = result }

\* query.get(): one of the rows found.
First(rows) == CHOOSE row \in rows : TRUE

(***************************************************************************)
(* tag_object (local.py 41-67), called by the tagged upload and by         *)
(* tagObject.  Its steps: validate, then get_or_create of the Result, of   *)
(* the Tag and of the TaggedResult.                                        *)
(***************************************************************************)
\* Where the handler goes on when tag_object returns.
AfterTagObject(kind) == IF kind = "upload" THEN "put_object" ELSE "select_result"

\* The field values tag_object looks the Result up by and creates it with.
ResultLookup_NoFilename(rec) ==
    [ client_id |-> rec.client_id, object_id |-> rec.object_id,
      filename |->
          IF ResultKeyTaken(rec.client_id, rec.object_id)
          THEN First({ row \in results :
                         /\ row.client_id = rec.client_id
                         /\ row.object_id = rec.object_id }).filename
          ELSE EffectiveFilename(rec.filename) ]

ResultLookup(rec) ==
    [ client_id |-> rec.client_id, object_id |-> rec.object_id,
      filename |-> EffectiveFilename(rec.filename) ]

\* except pw.IntegrityError: raise HTTPException(400, "... already exists")
OnIntegrityError_Uncaught(rec) == Respond(rec, "ServerError")

OnIntegrityError(rec) == Respond(rec, "FilenameConflict")

\* if not is_valid_tag(tag): raise HTTPException(400)
Validate(r) ==
    /\ InFlight(r)
    /\ req[r].pc = "validate"
    /\ req' = [req EXCEPT ![r] =
                 IF is_valid_tag(req[r].tag)
                 THEN [@ EXCEPT !.pc = "result_get"]
                 ELSE Respond(@, "InvalidTag")]
    /\ UNCHANGED << hub_vars, store_vars, ledger_vars, next_object_id, started, grammar_vars >>

\* crud.Result.get_or_create(client_id, object_id, filename), and the
\* IntegrityError it raises turned into 400.
ResultGetOrCreate(r) ==
    /\ InFlight(r)
    /\ req[r].pc \in {"result_get", "result_create", "result_reget"}
    /\ LET rec == req[r]
           key == ResultLookup(rec)
           found == SelectResult(key.client_id, key.object_id, key.filename)
           id == FreshId(RowIds(results) \cup HeldResultIds)
       IN  CASE rec.pc = "result_get" ->
                  /\ req' = [req EXCEPT ![r] =
                               IF found # {}
                               THEN [rec EXCEPT !.result = First(found).id,
                                                !.pc = "tag_get"]
                               ELSE [rec EXCEPT !.pc = "result_create"]]
                  /\ UNCHANGED results
             [] rec.pc = "result_create" ->
                  IF ResultKeyTaken(key.client_id, key.object_id)
                  THEN /\ req' = [req EXCEPT ![r].pc = "result_reget"]
                       /\ UNCHANGED results
                  ELSE /\ results' = results \cup
                             { [ id |-> id, client_id |-> key.client_id,
                                 object_id |-> key.object_id,
                                 filename |-> key.filename ] }
                       /\ req' = [req EXCEPT ![r] =
                                    [rec EXCEPT !.result = id, !.result_created = TRUE,
                                                !.pc = "tag_get"]]
             [] rec.pc = "result_reget" ->
                  /\ req' = [req EXCEPT ![r] =
                               IF found # {}
                               THEN [rec EXCEPT !.result = First(found).id,
                                                !.pc = "tag_get"]
                               ELSE OnIntegrityError(rec)]
                  /\ UNCHANGED results
    /\ UNCHANGED << hub_vars, store_vars, tags, tagged_results, next_object_id,
                    started, grammar_vars >>

\* crud.Tag.get_or_create(tag_name, project_id); its IntegrityError is not
\* caught.
TagGetOrCreate(r) ==
    /\ InFlight(r)
    /\ req[r].pc \in {"tag_get", "tag_create", "tag_reget"}
    /\ LET rec == req[r]
           found == SelectTag(rec.tag, rec.project_id)
           id == FreshId(RowIds(tags) \cup HeldTagIds)
       IN  CASE rec.pc = "tag_get" ->
                  /\ req' = [req EXCEPT ![r] =
                               IF found # {}
                               THEN [rec EXCEPT !.tag_row = First(found).id,
                                                !.pc = "link_get"]
                               ELSE [rec EXCEPT !.pc = "tag_create"]]
                  /\ UNCHANGED tags
             [] rec.pc = "tag_create" ->
                  IF TagKeyTaken(rec.tag, rec.project_id)
                  THEN /\ req' = [req EXCEPT ![r].pc = "tag_reget"]
                       /\ UNCHANGED tags
                  ELSE /\ tags' = tags \cup
                             { [ id |-> id, tag_name |-> rec.tag,
                                 project_id |-> rec.project_id ] }
                       /\ req' = [req EXCEPT ![r] =
                                    [rec EXCEPT !.tag_row = id, !.tag_created = TRUE,
                                                !.pc = "link_get"]]
             [] rec.pc = "tag_reget" ->
                  /\ req' = [req EXCEPT ![r] =
                               IF found # {}
                               THEN [rec EXCEPT !.tag_row = First(found).id,
                                                !.pc = "link_get"]
                               ELSE Respond(rec, "ServerError")]
                  /\ UNCHANGED tags
    /\ UNCHANGED << hub_vars, store_vars, results, tagged_results, next_object_id,
                    started, grammar_vars >>

\* crud.TaggedResult.get_or_create(tag, result); its IntegrityError is not
\* caught.
LinkGetOrCreate(r) ==
    /\ InFlight(r)
    /\ req[r].pc \in {"link_get", "link_create", "link_reget"}
    /\ LET rec == req[r]
           found == SelectLink(rec.tag_row, rec.result)
           id == FreshId(RowIds(tagged_results))
       IN  CASE rec.pc = "link_get" ->
                  /\ req' = [req EXCEPT ![r].pc =
                               IF found # {} THEN AfterTagObject(rec.kind)
                                             ELSE "link_create"]
                  /\ UNCHANGED tagged_results
             [] rec.pc = "link_create" ->
                  IF \/ LinkKeyTaken(rec.tag_row, rec.result)
                     \/ ~ForeignKeysHold(rec.tag_row, rec.result)
                  THEN /\ req' = [req EXCEPT ![r].pc = "link_reget"]
                       /\ UNCHANGED tagged_results
                  ELSE /\ tagged_results' = tagged_results \cup
                             { [ id |-> id, tag |-> rec.tag_row,
                                 result |-> rec.result ] }
                       /\ req' = [req EXCEPT ![r].pc = AfterTagObject(rec.kind)]
             [] rec.pc = "link_reget" ->
                  /\ req' = [req EXCEPT ![r] =
                               IF found # {}
                               THEN [rec EXCEPT !.pc = AfterTagObject(rec.kind)]
                               ELSE Respond(rec, "ServerError")]
                  /\ UNCHANGED tagged_results
    /\ UNCHANGED << hub_vars, store_vars, results, tags, next_object_id,
                    started, grammar_vars >>

(***************************************************************************)
(* PUT /local: submit_intermediate_result_to_local (local.py 137-179).     *)
(***************************************************************************)
\* _get_project_id_for_analysis_or_raise: the project of the analysis, or
\* "" when core_client.get_analysis returns None.
ResolveProject_Unchecked(client_id) == ProjectOfAnalysis(client_id)

ResolveProject(client_id) ==
    IF client_id \in Analyses /\ ProjectOfAnalysis(client_id) \in hub
    THEN ProjectOfAnalysis(client_id)
    ELSE ""

\* A request arrives in a free slot.
Arrive(r) ==
    /\ Free(r)
    /\ started < MaxRequests
    /\ started' = started + 1

\* What the upload handler does after it has its object id.
UploadFirstStep(has_tag) == IF has_tag THEN "validate" ELSE "put_object"

\* The request arrives; the handler resolves the project (404 if the hub
\* has no such analysis) and draws the object id.
StartUpload(r, client_id, filename, has_tag, tag, data) ==
    /\ Arrive(r)
    /\ LET project_id == ResolveProject(client_id)
           rec == [IdleRequest EXCEPT !.kind = "upload", !.pc = "resolve",
                                      !.client_id = client_id,
                                      !.filename = filename,
                                      !.has_tag = has_tag, !.tag = tag,
                                      !.data = data]
       IN  IF project_id = ""
           THEN /\ req' = [req EXCEPT ![r] = Respond(rec, "NotFound")]
                /\ UNCHANGED next_object_id
           ELSE /\ req' = [req EXCEPT ![r] =
                             [rec EXCEPT !.project_id = project_id,
                                         !.object_id = next_object_id,
                                         !.pc = UploadFirstStep(has_tag)]]
                /\ next_object_id' = next_object_id + 1
    /\ UNCHANGED << hub_vars, store_vars, ledger_vars, grammar_vars >>

\* minio.put_object(bucket, object_name, ...): the names in the bucket.
Put_Dropped(stored, name) == stored

Put(stored, name) == stored \cup {name}

\* minio.put_object(bucket, object_name, ...), then the 200 response.
PutObject(r) ==
    /\ InFlight(r)
    /\ req[r].pc = "put_object"
    /\ LET name == ObjectName(req[r].project_id, req[r].object_id)
       IN  /\ objects' = Put(objects, name)
           /\ written' = written \cup {name}
           /\ blobs' = [ n \in DOMAIN blobs \cup {name} |->
                           IF n = name THEN req[r].data ELSE blobs[n] ]
    /\ req' = [req EXCEPT ![r] = Respond([@ EXCEPT !.pc = "done"], "ok")]
    /\ UNCHANGED << hub_vars, ledger_vars, next_object_id, started, grammar_vars >>

(***************************************************************************)
(* POST /local/tags: create_object_tag (local.py 261-291).                 *)
(***************************************************************************)
\* create_object_tag checks that the object exists before it calls
\* tag_object.
TagFirstStep_NoCheck == "validate"

TagFirstStep == "get_object"

StartTag(r, client_id, tag, object_id, filename) ==
    /\ Arrive(r)
    /\ LET project_id == ResolveProject(client_id)
           rec == [IdleRequest EXCEPT !.kind = "tag", !.pc = "resolve",
                                      !.client_id = client_id,
                                      !.object_id = object_id,
                                      !.filename = filename,
                                      !.has_tag = TRUE, !.tag = tag]
       IN  req' = [req EXCEPT ![r] =
                     IF project_id = ""
                     THEN Respond(rec, "NotFound")
                     ELSE [rec EXCEPT !.project_id = project_id,
                                      !.pc = TagFirstStep]]
    /\ UNCHANGED << hub_vars, store_vars, ledger_vars, next_object_id, grammar_vars >>

\* The read handles of a request: the HTTP responses of minio.get_object
\* and the streams of storage_client.stream_bucket_file that it has opened
\* and that are neither read to the end nor closed.
Opened(handles, handle) == handles \cup {handle}

\* The handle is read to its end.
Exhausted(handles, handle) == handles \ {handle}

\* What the handler does with the object it got: create_object_tag goes
\* on to tag_object, upload_local_file to the Result row of the object.
AfterGetObject(kind) == IF kind = "tag" THEN "validate" ELSE "select_filename"

\* _get_object_from_s3: 404 on NoSuchKey.  retrieve_intermediate_result_from_local
\* answers with StreamingResponse(response), the bytes of the object read
\* to the end; create_object_tag drops the response and upload_local_file
\* keeps it for response.read().
GetObject(r) ==
    /\ InFlight(r)
    /\ req[r].pc = "get_object"
    /\ LET name == ObjectName(req[r].project_id, req[r].object_id)
       IN  req' = [req EXCEPT ![r] =
                     IF name \notin objects
                     THEN Respond(@, "NotFound")
                     ELSE IF @.kind = "retrieve"
                          THEN Respond([@ EXCEPT !.body = blobs[name],
                                                 !.pc = "done"], "ok")
                          ELSE IF @.kind = "to_hub"
                               THEN [@ EXCEPT !.data = blobs[name],
                                              !.handles = Opened(req[r].handles, "object"),
                                              !.pc = AfterGetObject(req[r].kind)]
                               ELSE [@ EXCEPT !.handles = Opened(req[r].handles, "object"),
                                              !.pc = AfterGetObject(req[r].kind)]]
    /\ UNCHANGED << hub_vars, store_vars, ledger_vars, next_object_id, started, grammar_vars >>

\* crud.Result.select().where(object_id, client_id).get(), then the 200
\* response; DoesNotExist is not caught.
SelectResultRow(r) ==
    /\ InFlight(r)
    /\ req[r].pc = "select_result"
    /\ req' = [req EXCEPT ![r] =
                 IF ResultKeyTaken(@.client_id, @.object_id)
                 THEN Respond([@ EXCEPT !.pc = "done"], "ok")
                 ELSE Respond(@, "ServerError")]
    /\ UNCHANGED << hub_vars, store_vars, ledger_vars, next_object_id, started, grammar_vars >>

(***************************************************************************)
(* GET /local/tags, GET /local/tags/{tag_name}, GET /local/{object_id}     *)
(* (local.py 226-252, 300-332, 340-357).                                   *)
(***************************************************************************)
\* request.url_for(name, ...): the path of the route, as its segments.
UrlOfTag(tag_name) == << "local", "tags", tag_name >>
UrlOfObject(object_id) == << "local", object_id >>

\* crud.Tag.select().where(Tag.project_id == project_id), as LocalTag items.
TagsIn(tag_table, project_id) ==
    { [ name |-> row.tag_name, url |-> UrlOfTag(row.tag_name) ] :
        row \in { t \in tag_table : t.project_id = project_id } }

TagsOfProject(project_id) == TagsIn(tags, project_id)

\* crud.Result.select().join(TaggedResult).join(Tag).where(project, tag
\* name), as LocalTaggedResult items.
ResultsIn(result_table, link_table, tag_table, project_id, tag_name) ==
    { [ filename |-> row.filename, url |-> UrlOfObject(row.object_id) ] :
        row \in { res \in result_table :
                    \E link \in link_table, t \in tag_table :
                        /\ link.result = res.id
                        /\ link.tag = t.id
                        /\ t.project_id = project_id
                        /\ t.tag_name = tag_name } }

\* The join without the condition on the project of the tag.
ResultsByTag_AnyProject(project_id, tag_name) ==
    UNION { ResultsIn(results, tagged_results, tags, p, tag_name) : p \in Projects }

ResultsByTag(project_id, tag_name) ==
    ResultsIn(results, tagged_results, tags, project_id, tag_name)

\* A request of a handler that resolves the project of the caller first and
\* then makes the call named next.
StartResolved(r, kind, client_id, tag, object_id, next) ==
    /\ Arrive(r)
    /\ LET project_id == ResolveProject(client_id)
           rec == [IdleRequest EXCEPT !.kind = kind, !.pc = "resolve",
                                      !.client_id = client_id,
                                      !.tag = tag,
                                      !.object_id = object_id]
       IN  req' = [req EXCEPT ![r] =
                     IF project_id = ""
                     THEN Respond(rec, "NotFound")
                     ELSE [rec EXCEPT !.project_id = project_id, !.pc = next]]
    /\ UNCHANGED << hub_vars, store_vars, ledger_vars, next_object_id, grammar_vars >>

\* get_project_tags
StartGetTags(r, client_id) ==
    StartResolved(r, "get_tags", client_id, << >>, 0, "select_tags")

SelectTags(r) ==
    /\ InFlight(r)
    /\ req[r].pc = "select_tags"
    /\ req' = [req EXCEPT ![r] =
                 Respond([@ EXCEPT !.response = TagsOfProject(req[r].project_id),
                                   !.pc = "done"], "ok")]
    /\ UNCHANGED << hub_vars, store_vars, ledger_vars, next_object_id, started, grammar_vars >>

\* get_results_by_project_tag
StartGetResults(r, client_id, tag_name) ==
    StartResolved(r, "get_results", client_id, tag_name, 0, "select_tagged")

SelectTaggedResults(r) ==
    /\ InFlight(r)
    /\ req[r].pc = "select_tagged"
    /\ req' = [req EXCEPT ![r] =
                 Respond([@ EXCEPT !.response = ResultsByTag(req[r].project_id, req[r].tag),
                                   !.pc = "done"], "ok")]
    /\ UNCHANGED << hub_vars, store_vars, ledger_vars, next_object_id, started, grammar_vars >>

\* retrieve_intermediate_result_from_local
StartRetrieve(r, client_id, object_id) ==
    StartResolved(r, "retrieve", client_id, << >>, object_id, "get_object")

(***************************************************************************)
(* DELETE /local: delete_local_results (local.py 187-217).                 *)
(***************************************************************************)
\* if client_id != settings.hub_adapter_client_id: 403
IsHubAdapter_Anyone(client_id) == TRUE

IsHubAdapter(client_id) == client_id = HubAdapterClientId

\* The request arrives; 403 unless the caller is the hub adapter.
StartDelete(r, client_id, project_id) ==
    /\ Arrive(r)
    /\ LET rec == [IdleRequest EXCEPT !.kind = "delete", !.pc = "authorize",
                                      !.client_id = client_id,
                                      !.project_id = project_id]
       IN  req' = [req EXCEPT ![r] =
                     IF ~IsHubAdapter(client_id)
                     THEN Respond(rec, "Forbidden")
                     ELSE [rec EXCEPT !.pc = "get_project"]]
    /\ UNCHANGED << hub_vars, store_vars, ledger_vars, next_object_id, grammar_vars >>

\* core_client.get_project(project_id) is not None
StillOnHub_Never(project_id) == FALSE

StillOnHub(project_id) == project_id \in hub

\* core_client.get_project(project_id): 400 while the hub has the project.
GetProject(r) ==
    /\ InFlight(r)
    /\ req[r].pc = "get_project"
    /\ req' = [req EXCEPT ![r] =
                 IF StillOnHub(@.project_id)
                 THEN Respond(@, "ProjectExists")
                 ELSE [@ EXCEPT !.pc = "list_objects"]]
    /\ UNCHANGED << hub_vars, store_vars, ledger_vars, next_object_id, started, grammar_vars >>

\* Where the removal loop goes on: to the ledger once the listing is used up.
RemoveLoopExit_Early(listing) == "delete_results"

RemoveLoopExit(listing) ==
    IF listing = {} THEN "delete_results" ELSE "remove_object"

\* minio.remove_object(bucket, object_name): what the bucket holds afterwards.
Removed_Kept(stored, name) == stored

Removed(stored, name) == stored \ {name}

\* minio.list_objects(bucket, prefix=f"local/{project_id}/")
ListObjects(r) ==
    /\ InFlight(r)
    /\ req[r].pc = "list_objects"
    /\ LET listing == { name \in objects : HasPrefix(name, req[r].project_id) }
       IN  req' = [req EXCEPT ![r] =
                     [@ EXCEPT !.listing = listing,
                               !.pc = RemoveLoopExit(listing)]]
    /\ UNCHANGED << hub_vars, store_vars, ledger_vars, next_object_id, started, grammar_vars >>

\* object_ids.append(object_.object_name.split("/")[-1])
Appended_Forgotten(object_ids, name) == object_ids

Appended(object_ids, name) == object_ids \cup {LastSegment(name)}

\* One turn of the loop: minio.remove_object, object_ids.append.
RemoveObject(r) ==
    /\ InFlight(r)
    /\ req[r].pc = "remove_object"
    /\ \E name \in req[r].listing :
         /\ objects' = Removed(objects, name)
         /\ blobs' = [ n \in DOMAIN blobs \ {name} |-> blobs[n] ]
         /\ req' = [req EXCEPT ![r] =
                      [@ EXCEPT !.listing = @ \ {name},
                                !.object_ids = Appended(@, name),
                                !.pc = RemoveLoopExit(req[r].listing \ {name})]]
    /\ UNCHANGED << hub_vars, written, ledger_vars, next_object_id, started, grammar_vars >>

\* crud.Result.delete().where(crud.Result.object_id.in_(object_ids))
DeleteResults(r) ==
    /\ InFlight(r)
    /\ req[r].pc = "delete_results"
    /\ LET left == { row \in results : row.object_id \notin req[r].object_ids }
       IN  /\ results' = left
           /\ tagged_results' = Cascade(tagged_results, left, tags)
    /\ req' = [req EXCEPT ![r].pc = "delete_tags"]
    /\ UNCHANGED << hub_vars, store_vars, tags, next_object_id, started, grammar_vars >>

\* The Tag rows that crud.Tag.delete().where(crud.Tag.project_id == project_id)
\* leaves.
TagsLeft_None(tag_table, project_id) == {}

TagsLeft(tag_table, project_id) ==
    { row \in tag_table : row.project_id # project_id }

\* crud.Tag.delete().where(crud.Tag.project_id == project_id), then 200.
DeleteTags(r) ==
    /\ InFlight(r)
    /\ req[r].pc = "delete_tags"
    /\ LET left == TagsLeft(tags, req[r].project_id)
       IN  /\ tags' = left
           /\ tagged_results' = Cascade(tagged_results, results, left)
    /\ req' = [req EXCEPT ![r] = Respond([@ EXCEPT !.pc = "done"], "ok")]
    /\ UNCHANGED << hub_vars, store_vars, results, next_object_id, started, grammar_vars >>

(***************************************************************************)
(* The secure channel: project/crypto.py, encrypt_default and              *)
(* decrypt_default.  A unit is a nonce byte, one cipher byte for every     *)
(* plaintext byte and a tag byte; the tag authenticates the key, the nonce *)
(* and the values under it.                                                *)
(***************************************************************************)
\* ECDH and the key derivation: both parties derive the same key.
SharedKey(private_key, public_key) == {private_key, public_key}

NonceByte(nonce) == [ kind |-> "nonce", key |-> {}, nonce |-> nonce, val |-> << >> ]

CipherByte(key, nonce, byte) ==
    [ kind |-> "cipher", key |-> key, nonce |-> nonce, val |-> byte.val ]

\* The values the bytes carry, in order.
Values(bytes) == [ i \in 1 .. Len(bytes) |-> bytes[i].val[1] ]

TagByte(key, nonce, bytes) ==
    [ kind |-> "tag", key |-> key, nonce |-> nonce, val |-> Values(bytes) ]

\* A byte that belongs to no unit.
JunkByte == [ kind |-> "junk", key |-> {}, nonce |-> 0, val |-> << >> ]

\* encrypt_default: the whole plaintext becomes one unit.
encrypt_default(private_key, public_key, nonce, plaintext) ==
    LET key == SharedKey(private_key, public_key)
    IN  << NonceByte(nonce) >>
          \o [ i \in 1 .. Len(plaintext) |-> CipherByte(key, nonce, plaintext[i]) ]
          \o << TagByte(key, nonce, plaintext) >>

\* The tag of the unit verifies under the key.
Authenticates(key, unit) ==
    /\ Len(unit) >= 2
    /\ unit[1].kind = "nonce"
    /\ LET nonce == unit[1].nonce
           tag == unit[Len(unit)]
           middle == SubSeq(unit, 2, Len(unit) - 1)
       IN  /\ tag.kind = "tag"
           /\ tag.key = key
           /\ tag.nonce = nonce
           /\ \A i \in 1 .. Len(middle) :
                /\ middle[i].kind = "cipher"
                /\ middle[i].key = key
                /\ middle[i].nonce = nonce
           /\ tag.val = Values(middle)

\* decrypt_default on a unit that authenticates: its plaintext.
decrypt_default(private_key, public_key, unit) ==
    [ i \in 1 .. (Len(unit) - 2) |-> Plain(unit[i + 1].val[1]) ]

\* The bytes that differ from a ciphertext or tag byte in one bit: a
\* cipher byte carries another value, a tag is the tag of other values.
FlipValues == {0, 1, 2}
FlipTags == { << >>, << 1 >>, << 2 >>, << 1, 2 >>, << 2, 1 >> }

Flips(byte) ==
    IF byte.kind = "cipher"
    THEN { [byte EXCEPT !.val = << v >>] : v \in FlipValues \ {byte.val[1]} }
    ELSE IF byte.kind = "tag"
         THEN { [byte EXCEPT !.val = w] : w \in FlipTags \ {byte.val} }
         ELSE {}

\* The contents that differ from the content in one bit of the ciphertext
\* or the tag of one of its units.
Tampered(content) ==
    UNION { { [content EXCEPT ![i] = byte] : byte \in Flips(content[i]) } :
              i \in 1 .. Len(content) }

(***************************************************************************)
(* The hub: its node registry, the TEMP buckets of the analyses and its    *)
(* storage service, which hands a bucket file out in chunks.               *)
(***************************************************************************)
\* The nodes core_client.get_node finds; one of them has no public key.
Nodes == {"nA", "nB", "nC", "n0"}
NoKeyNode == "n0"
NoNode == ""    \* remote_node_id / node_id is None

\* remote_node.public_key, "" for None; a key is named after its owner.
PublicKeyOf(node) == IF node = NoKeyNode THEN "" ELSE node

\* find_analysis_buckets(analysis_id, type TEMP) finds a bucket.
HasTempBucket(client_id) ==
    client_id \in Analyses /\ ProjectOfAnalysis(client_id) \in hub

\* find_analysis_buckets(analysis_id, type RESULT) finds a bucket.
HasResultBucket(client_id) ==
    client_id \in Analyses /\ ProjectOfAnalysis(client_id) \in hub

\* The bucket the handler uploads to: the TEMP bucket of the analysis for an
\* intermediate result, its RESULT bucket for a final one.
HasBucket(rec) ==
    IF rec.kind = "put_final"
    THEN HasResultBucket(rec.client_id)
    ELSE HasTempBucket(rec.client_id)

Min(a, b) == IF a < b THEN a ELSE b

\* The chunk that stream_bucket_file yields at the offset.
ChunkAt(content, offset, chunk_size) ==
    SubSeq(content, offset + 1, Min(offset + chunk_size, Len(content)))

(***************************************************************************)
(* PUT /intermediate: submit_intermediate_result_to_hub                    *)
(* (intermediate.py 59-126), and PUT /local/upload: upload_local_file      *)
(* (local.py 366-408), which calls it with a local object as the file.     *)
(* node is the node this service runs on, the owner of its private key.    *)
(***************************************************************************)
StartPutIntermediate(r, node, client_id, filename, data, peer) ==
    /\ Arrive(r)
    /\ req' = [req EXCEPT ![r] =
                 [IdleRequest EXCEPT !.kind = "put_intermediate",
                                     !.pc = "find_buckets",
                                     !.client_id = client_id,
                                     !.filename = filename,
                                     !.data = data,
                                     !.node = node, !.peer = peer]]
    /\ UNCHANGED << hub_vars, store_vars, ledger_vars, next_object_id, grammar_vars >>

\* PUT /final: submit_final_result_to_hub (final.py 98-142), the same steps
\* without encryption, into the RESULT bucket.
StartPutFinal(r, node, client_id, filename, data) ==
    /\ Arrive(r)
    /\ req' = [req EXCEPT ![r] =
                 [IdleRequest EXCEPT !.kind = "put_final",
                                     !.pc = "find_buckets",
                                     !.client_id = client_id,
                                     !.filename = filename,
                                     !.data = data,
                                     !.node = node, !.peer = NoNode]]
    /\ UNCHANGED << hub_vars, store_vars, ledger_vars, next_object_id, grammar_vars >>

StartToHub(r, node, client_id, object_id, peer) ==
    /\ Arrive(r)
    /\ LET project_id == ResolveProject(client_id)
           rec == [IdleRequest EXCEPT !.kind = "to_hub", !.pc = "resolve",
                                      !.client_id = client_id,
                                      !.object_id = object_id,
                                      !.node = node, !.peer = peer]
       IN  req' = [req EXCEPT ![r] =
                     IF project_id = ""
                     THEN Respond(rec, "NotFound")
                     ELSE [rec EXCEPT !.project_id = project_id,
                                      !.pc = "get_object"]]
    /\ UNCHANGED << hub_vars, store_vars, ledger_vars, next_object_id, grammar_vars >>

\* The filename of the Result row of the caller and the object if there is
\* exactly one, else str(object_id); then the call of
\* submit_intermediate_result_to_hub.
FilenameOrObjectId_AnyClient(client_id, object_id) ==
    LET rows == { row \in results : row.object_id = object_id }
    IN  IF Cardinality(rows) = 1 THEN First(rows).filename ELSE ToString(object_id)

FilenameOrObjectId(client_id, object_id) ==
    LET rows == { row \in results :
                    row.object_id = object_id /\ row.client_id = client_id }
    IN  IF Cardinality(rows) = 1 THEN First(rows).filename ELSE ToString(object_id)

SelectFilename(r) ==
    /\ InFlight(r)
    /\ req[r].pc = "select_filename"
    /\ req' = [req EXCEPT ![r] =
                 [@ EXCEPT !.filename = FilenameOrObjectId(req[r].client_id,
                                                           req[r].object_id),
                           !.handles = Exhausted(req[r].handles, "object"),
                           !.pc = "find_buckets"]]
    /\ UNCHANGED << hub_vars, store_vars, ledger_vars, next_object_id, started, grammar_vars >>

\* What the upload does with the file it has read.
AfterFileRead_NoEncryption(peer) == "upload_to_bucket"

AfterFileRead(peer) == IF peer = NoNode THEN "upload_to_bucket" ELSE "get_node"

FindBuckets(r) ==
    /\ InFlight(r)
    /\ req[r].pc = "find_buckets"
    /\ req' = [req EXCEPT ![r] =
                 IF HasBucket(req[r])
                 THEN [@ EXCEPT !.pc = AfterFileRead(req[r].peer)]
                 ELSE Respond(@, "NotFound")]
    /\ UNCHANGED << hub_vars, store_vars, ledger_vars, next_object_id, started, grammar_vars >>

\* What the handler does with the public key of the peer.
AfterGetNode(kind) == IF kind = "get_intermediate" THEN "precheck" ELSE "encrypt"

\* get_remote_node_public_key: 404 if the hub has no such node, 400 if the
\* node has no public key.
GetNode(r) ==
    /\ InFlight(r)
    /\ req[r].pc = "get_node"
    /\ req' = [req EXCEPT ![r] =
                 IF req[r].peer \notin Nodes
                 THEN Respond(@, "NotFound")
                 ELSE IF PublicKeyOf(req[r].peer) = ""
                      THEN Respond(@, "NoPublicKey")
                      ELSE [@ EXCEPT !.pc = AfterGetNode(req[r].kind)]]
    /\ UNCHANGED << hub_vars, store_vars, ledger_vars, next_object_id, started, grammar_vars >>

\* The nonce of the next unit: one that no stored unit has.
FreshNonce == Len(bucket_files) + 1

\* remote_public_key = get_remote_node_public_key(core_client, remote_node_id)
RemotePublicKey_Own(rec) == PublicKeyOf(rec.node)

RemotePublicKey(rec) == PublicKeyOf(rec.peer)

\* result_file = crypto.encrypt_default(private_key, remote_public_key, result_file)
Encrypt(r) ==
    /\ InFlight(r)
    /\ req[r].pc = "encrypt"
    /\ req' = [req EXCEPT ![r] =
                 [@ EXCEPT !.data = encrypt_default(req[r].node,
                                                    RemotePublicKey(req[r]),
                                                    FreshNonce, req[r].data),
                           !.pc = "upload_to_bucket"]]
    /\ UNCHANGED << hub_vars, store_vars, ledger_vars, next_object_id, started, grammar_vars >>

\* if len(bucket_file_lst) != 1: raise HTTPException(502)
UnexpectedUpload_OnlyNone(count) == count = 0

UnexpectedUpload(count) == count # 1

\* storage_client.upload_to_bucket answers with count bucket files, which
\* it has stored; the handler goes on with the last of them if there is
\* exactly one and ends with 502 else.
UploadReply(r, count) ==
    /\ InFlight(r)
    /\ req[r].pc = "upload_to_bucket"
    /\ bucket_files' = bucket_files \o
                         [ i \in 1 .. count |->
                             [ content |-> req[r].data,
                               name |-> req[r].filename,
                               linked |-> FALSE ] ]
    /\ req' = [req EXCEPT ![r] =
                 IF UnexpectedUpload(count)
                 THEN Respond(@, "UpstreamUnavailable")
                 ELSE [@ EXCEPT !.object_id = Len(bucket_files) + count,
                                !.pc = "link"]]
    /\ UNCHANGED << hub, store_vars, ledger_vars, next_object_id, started, grammar_vars >>

\* storage_client.upload_to_bucket: the storage service stores the file and
\* returns the one bucket file with its id.
UploadToBucket(r) == UploadReply(r, 1)

\* core_client.create_analysis_bucket_file, then the 200 response with the
\* id of the bucket file.
LinkBucketFile(r) ==
    /\ InFlight(r)
    /\ req[r].pc = "link"
    /\ bucket_files' = [bucket_files EXCEPT ![req[r].object_id].linked = TRUE]
    /\ req' = [req EXCEPT ![r] = Respond([@ EXCEPT !.pc = "done"], "ok")]
    /\ UNCHANGED << hub, store_vars, ledger_vars, next_object_id, started, grammar_vars >>

(***************************************************************************)
(* GET /intermediate/{object_id}: retrieve_intermediate_result_from_hub    *)
(* (intermediate.py 137-173).  body is what the caller has received.       *)
(***************************************************************************)
StartGetIntermediate(r, node, object_id, peer, chunk_size) ==
    /\ Arrive(r)
    /\ req' = [req EXCEPT ![r] =
                 [IdleRequest EXCEPT !.kind = "get_intermediate",
                                     !.pc = "get_bucket_file",
                                     !.object_id = object_id,
                                     !.node = node, !.peer = peer,
                                     !.chunk_size = chunk_size]]
    /\ UNCHANGED << hub_vars, store_vars, ledger_vars, next_object_id, grammar_vars >>

\* With node_id the handler checks the first chunk; without, it returns
\* the StreamingResponse at once.
AfterGetBucketFile(peer) == IF peer = NoNode THEN "stream" ELSE "first_bytes"

\* storage_client.get_bucket_file(object_id): 404 on None.
GetBucketFile(r) ==
    /\ InFlight(r)
    /\ req[r].pc = "get_bucket_file"
    /\ req' = [req EXCEPT ![r] =
                 IF req[r].object_id \in DOMAIN bucket_files
                 THEN [@ EXCEPT !.pc = AfterGetBucketFile(req[r].peer)]
                 ELSE Respond(@, "NotFound")]
    /\ UNCHANGED << hub_vars, store_vars, ledger_vars, next_object_id, started, grammar_vars >>

\* first_bytes = next(storage_client.stream_bucket_file(object_id)); the
\* stream of an empty file yields nothing and next raises StopIteration.
FirstBytes(r) ==
    /\ InFlight(r)
    /\ req[r].pc = "first_bytes"
    /\ LET content == bucket_files[req[r].object_id].content
       IN  req' = [req EXCEPT ![r] =
                     IF content = << >>
                     THEN Respond(@, "ServerError")
                     ELSE [@ EXCEPT !.first_bytes =
                                        ChunkAt(content, 0, req[r].chunk_size),
                                    !.handles = Opened(req[r].handles, "precheck"),
                                    !.pc = "get_node"]]
    /\ UNCHANGED << hub_vars, store_vars, ledger_vars, next_object_id, started, grammar_vars >>

\* The key of crypto.decrypt_default(private_key, remote_node_public_key, .):
\* remote_node_public_key is the key of the node that node_id names.
DecryptionKey_OfUploader(rec) == SharedKey(rec.node, "nA")

DecryptionKey(rec) == SharedKey(rec.node, PublicKeyOf(rec.peer))

\* try: crypto.decrypt_default(...) except InvalidTag
PrecheckFails_Never(key, first_bytes) == FALSE

PrecheckFails(key, first_bytes) == ~Authenticates(key, first_bytes)

\* stream = storage_client.stream_bucket_file(object_id) in
\* _stream_bucket_file: the offset at which the response read starts, a
\* new stream and not the one the pre-check has consumed first_bytes of.
StreamStart_Continued(first_bytes) == Len(first_bytes)

StreamStart(first_bytes) == 0

\* The pre-check: 400 if the first chunk does not decrypt.
Precheck(r) ==
    /\ InFlight(r)
    /\ req[r].pc = "precheck"
    /\ LET key == DecryptionKey(req[r])
       IN  req' = [req EXCEPT ![r] =
                     IF PrecheckFails(key, req[r].first_bytes)
                     THEN Respond(@, "DecryptionNotPossible")
                     ELSE [@ EXCEPT !.offset = StreamStart(req[r].first_bytes),
                                    !.pc = "stream"]]
    /\ UNCHANGED << hub_vars, store_vars, ledger_vars, next_object_id, started, grammar_vars >>

\* crypto.decrypt_default raises InvalidTag in the loop of
\* _stream_bucket_file.
ChunkFails_Never(rec, b) == FALSE

ChunkFails(rec, b) == rec.peer # NoNode /\ ~Authenticates(DecryptionKey(rec), b)

\* What _stream_bucket_file yields for the chunk b.
Yielded_Nothing(rec, b) == << >>

Yielded(rec, b) ==
    IF rec.peer = NoNode
    THEN b
    ELSE decrypt_default(rec.node, PublicKeyOf(rec.peer), b)

\* The response has started: the status line 200 and the headers are sent.
ResponseStarted(rec) ==
    rec.kind = "get_intermediate" /\ rec.pc \in {"stream", "done"}

\* One round of the loop of _stream_bucket_file under StreamingResponse:
\* the next chunk goes to the caller, decrypted if node_id is given; the
\* response ends when the stream does.  InvalidTag ends the generator
\* after the status line and the chunks before have been sent.
Stream(r) ==
    /\ InFlight(r)
    /\ req[r].pc = "stream"
    /\ LET content == bucket_files[req[r].object_id].content
           b == ChunkAt(content, req[r].offset, req[r].chunk_size)
       IN  req' = [req EXCEPT ![r] =
                     IF req[r].offset >= Len(content)
                     THEN Respond([@ EXCEPT !.handles = Exhausted(req[r].handles, "stream"),
                                            !.pc = "done"], "ok")
                     ELSE IF ChunkFails(req[r], b)
                          THEN Respond([@ EXCEPT !.handles = Opened(req[r].handles, "stream")],
                                       "StreamAborted")
                          ELSE [@ EXCEPT !.body = req[r].body \o Yielded(req[r], b),
                                         !.offset = req[r].offset + Len(b),
                                         !.handles = Opened(req[r].handles, "stream")]]
    /\ UNCHANGED << hub_vars, store_vars, ledger_vars, next_object_id, started, grammar_vars >>

(***************************************************************************)
(* The environment.                                                        *)
(***************************************************************************)
\* The request ends where it stands: the process crashes, or the call it
\* was about to make fails and the exception ends the request.
Abort(r) ==
    /\ InFlight(r)
    /\ req' = [req EXCEPT ![r] = Respond(@, "aborted")]
    /\ UNCHANGED << hub_vars, store_vars, ledger_vars, next_object_id, started, grammar_vars >>

\* The bytes of a bucket file change in the hub's storage, between two
\* requests: a byte is appended to it.
Tamper(id) ==
    /\ \A r \in Requests : Free(r)
    /\ id \in DOMAIN bucket_files
    /\ JunkByte \notin { bucket_files[id].content[i] :
                           i \in 1 .. Len(bucket_files[id].content) }
    /\ bucket_files' = [bucket_files EXCEPT ![id].content = Append(@, JunkByte)]
    /\ UNCHANGED << hub, store_vars, ledger_vars, next_object_id, req, started,
                    grammar_vars >>

\* A file that another node has encrypted for node nB unit by unit: two
\* units of one plaintext byte each.
PeerFile ==
    [ content |-> encrypt_default("nA", "nB", 8, << Plain(1) >>)
                    \o encrypt_default("nA", "nB", 9, << Plain(2) >>),
      name |-> "f2",
      linked |-> TRUE ]

\* The other node stores its file in the hub's storage, the first file
\* there, before the requests of this service.
PeerUpload ==
    /\ started = 0
    /\ bucket_files = << >>
    /\ bucket_files' = Append(bucket_files, PeerFile)
    /\ UNCHANGED << hub, store_vars, ledger_vars, next_object_id, req, started,
                    grammar_vars >>

\* A bit of the ciphertext or of a tag of the other node's file changes in
\* the hub's storage, before the requests of this service.
FlipBit(content) ==
    /\ started = 0
    /\ bucket_files = << PeerFile >>
    /\ content \in Tampered(PeerFile.content)
    /\ bucket_files' = << [PeerFile EXCEPT !.content = content] >>
    /\ UNCHANGED << hub, store_vars, ledger_vars, next_object_id, req, started,
                    grammar_vars >>

\* The handles of the request that the handler still refers to: the
\* response it is going to read and the stream its loop is reading.
Referenced(rec) ==
    IF rec.outcome # "none"
    THEN {}
    ELSE IF rec.kind = "to_hub" THEN {"object"} ELSE {"stream"}

\* The runtime finalises a response or a stream that the handler has
\* dropped, which closes it; when it does so is up to the runtime.
Finalize(r) ==
    /\ req[r].handles \ Referenced(req[r]) # {}
    /\ req' = [req EXCEPT ![r].handles = @ \cap Referenced(req[r])]
    /\ UNCHANGED << hub_vars, store_vars, ledger_vars, next_object_id, started,
                    grammar_vars >>

\* The calls to the hub: flame_hub raises HubAPIError when the hub answers
\* with an error, and handle_hub_api_error (server.py 123-136) makes it a 502.
HubCalls ==
    {"get_project", "find_buckets", "get_node", "upload_to_bucket", "link",
     "get_bucket_file"}

\* The calls to the object store and to the relational store.
MinioCalls == {"get_object", "put_object", "list_objects", "remove_object"}
DatabaseCalls ==
    {"result_get", "result_create", "result_reget", "tag_get", "tag_create",
     "tag_reget", "link_get", "link_create", "link_reget", "select_result",
     "select_tags", "select_tagged", "select_filename", "delete_results",
     "delete_tags"}

\* The calls whose failure a try/except or an exception handler turns into
\* a 502: get_object in _get_object_from_s3 and the calls to the hub.
BadGatewayCalls == {"get_object"} \cup HubCalls

\* The response to a request whose call has failed: 502 where the failure
\* is caught, else the 500 of an unhandled exception.
OnCallFailure(call) ==
    IF call \in BadGatewayCalls THEN "UpstreamUnavailable" ELSE "ServerError"

\* The call that the request is about to make fails: the hub answers with
\* an error, the object store raises S3Error, the database raises.
CallFails(r) ==
    /\ InFlight(r)
    /\ req[r].pc \in HubCalls \cup MinioCalls \cup DatabaseCalls
    /\ req' = [req EXCEPT ![r] =
                 Respond([@ EXCEPT !.failed_call = req[r].pc],
                         OnCallFailure(req[r].pc))]
    /\ UNCHANGED << hub_vars, store_vars, ledger_vars, next_object_id, started,
                    grammar_vars >>

\* The project, and its analyses with it, is deleted on the hub.
HubDeleteProject(project_id) ==
    /\ project_id \in hub
    /\ hub' = hub \ {project_id}
    /\ UNCHANGED << bucket_files, store_vars, ledger_vars, next_object_id, req, started,
                    grammar_vars >>

(***************************************************************************)
(* The specifications.  Each draws the requests from the callers and       *)
(* values named with it.                                                   *)
(***************************************************************************)
Init ==
    /\ hub = Projects
    /\ bucket_files = << >>
    /\ objects = {}
    /\ written = {}
    /\ blobs = NoBlobs
    /\ results = {}
    /\ tags = {}
    /\ tagged_results = {}
    /\ next_object_id = 1
    /\ req = [r \in Requests |-> IdleRequest]
    /\ started = 0
    /\ tag_in = << >>
    /\ tag_out = "none"

\* The object ids a caller can name: the ones handed out so far.
KnownObjectIds == 1 .. (next_object_id - 1)

\* One step of the handler of the request in slot r.
Step(r) ==
    \/ Validate(r)
    \/ ResultGetOrCreate(r)
    \/ TagGetOrCreate(r)
    \/ LinkGetOrCreate(r)
    \/ PutObject(r)
    \/ GetObject(r)
    \/ SelectResultRow(r)
    \/ GetProject(r)
    \/ ListObjects(r)
    \/ RemoveObject(r)
    \/ DeleteResults(r)
    \/ DeleteTags(r)

\* The requests the analyses send: uploads and tagObject calls.
StartByAnalysis(r, analyses, tag_names, filenames, payloads) ==
    \/ \E client_id \in analyses, filename \in filenames, data \in payloads :
         StartUpload(r, client_id, filename, FALSE, << >>, data)
    \/ \E client_id \in analyses, filename \in filenames, tag \in tag_names,
          data \in payloads :
         StartUpload(r, client_id, filename, TRUE, tag, data)
    \/ \E client_id \in analyses, tag \in tag_names,
          object_id \in KnownObjectIds, filename \in filenames :
         StartTag(r, client_id, tag, object_id, filename)

\* The deletions the hub adapter sends.
StartByHubAdapter(r, projects) ==
    \E project_id \in projects : StartDelete(r, HubAdapterClientId, project_id)

\* The deletions that other clients send.
StartByOther(r, clients, projects) ==
    \E client_id \in clients, project_id \in projects :
        StartDelete(r, client_id, project_id)

\* Spec: one request at a time, every call succeeds.
SeqSlots == {"r1"}
SeqAnalyses == {"a1", "a2"}
SeqProjects == {"p1"}
SeqOthers == {"a1"}
SeqPayloads == { << Plain(1) >> }
SeqTagNames == { <<"a">>, <<"-", "a">> }
SeqFilenames == {"", "f1"}   \* "": the request carries no filename

Next ==
    \/ \E r \in SeqSlots :
         \/ StartByAnalysis(r, SeqAnalyses, SeqTagNames, SeqFilenames, SeqPayloads)
         \/ StartByHubAdapter(r, SeqProjects)
         \/ StartByOther(r, SeqOthers, SeqProjects)
         \/ Step(r)
    \/ \E project_id \in SeqProjects : HubDeleteProject(project_id)

Spec == Init /\ [][Next]_vars

\* SpecCrash: one request at a time, and a request can end at any of its
\* steps.
CrashAnalyses == {"a1"}

NextCrash ==
    \/ \E r \in SeqSlots :
         \/ StartByAnalysis(r, CrashAnalyses, SeqTagNames, SeqFilenames, SeqPayloads)
         \/ StartByHubAdapter(r, SeqProjects)
         \/ Step(r)
         \/ Abort(r)
    \/ \E project_id \in SeqProjects : HubDeleteProject(project_id)

SpecCrash == Init /\ [][NextCrash]_vars

\* SpecConc: two requests in flight, uploads and tagObject calls only.
ConcAnalyses == {"a1"}
ConcTagNames == { <<"a">> }

ConcStep(r) ==
    \/ Validate(r)
    \/ ResultGetOrCreate(r)
    \/ TagGetOrCreate(r)
    \/ LinkGetOrCreate(r)
    \/ PutObject(r)
    \/ GetObject(r)
    \/ SelectResultRow(r)

NextConc ==
    \E r \in Requests :
        \/ StartByAnalysis(r, ConcAnalyses, ConcTagNames, SeqFilenames, SeqPayloads)
        \/ ConcStep(r)

SpecConc == Init /\ [][NextConc]_vars

\* SpecFilename: one analysis uploads and tags with no filename, with the
\* placeholder as the filename and with another filename, two requests at a
\* time.
DefaultFilenames == {"", "data.bin", "f1"}

NextFilename ==
    \E r \in Requests :
        \/ StartByAnalysis(r, ConcAnalyses, ConcTagNames, DefaultFilenames, SeqPayloads)
        \/ ConcStep(r)

SpecFilename == Init /\ [][NextFilename]_vars

\* One analysis tags its objects again and again, one request at a time,
\* under two tag names.
RetagTagNames == { <<"a">>, <<"b">> }

NextRetag ==
    \E r \in SeqSlots :
        \/ StartByAnalysis(r, ConcAnalyses, RetagTagNames, SeqFilenames, SeqPayloads)
        \/ ConcStep(r)

SpecRetag == Init /\ [][NextRetag]_vars

\* Analyses of two projects and a client the hub does not know upload, tag,
\* read and send local objects to the hub, one request at a time.
UnknownClientId == "ax"
ReadClients == {"a1", "a2", "a3", UnknownClientId}
ReadTagNames == { <<"a">> }
ReadFilenames == {"f1"}
ReadPayloads == { << Plain(1) >>, << Plain(2), Plain(1) >> }

StartRead(r, clients, tag_names) ==
    \/ \E client_id \in clients : StartGetTags(r, client_id)
    \/ \E client_id \in clients, tag_name \in tag_names :
         StartGetResults(r, client_id, tag_name)
    \/ \E client_id \in clients, object_id \in KnownObjectIds :
         StartRetrieve(r, client_id, object_id)

ReadPeers == {NoNode, "nB"}

\* The steps of an upload to the hub.
UploadStep(r) ==
    \/ SelectFilename(r)
    \/ FindBuckets(r)
    \/ GetNode(r)
    \/ Encrypt(r)
    \/ UploadToBucket(r)
    \/ LinkBucketFile(r)

ReadStep(r) ==
    \/ ConcStep(r)
    \/ SelectTags(r)
    \/ SelectTaggedResults(r)
    \/ UploadStep(r)

NextRead ==
    \E r \in SeqSlots :
        \/ StartByAnalysis(r, ReadClients, ReadTagNames, ReadFilenames, ReadPayloads)
        \/ StartRead(r, ReadClients, ReadTagNames)
        \/ \E client_id \in ReadClients, object_id \in KnownObjectIds,
              peer \in ReadPeers :
             StartToHub(r, "nA", client_id, object_id, peer)
        \/ ReadStep(r)

SpecRead == Init /\ [][NextRead]_vars

\* SpecHub: node nA uploads to the hub, from the request or from its
\* local store, in plain or encrypted for a peer; node nB fetches from the
\* hub, in plain or decrypting as from a peer, with the chunk size of the
\* transport; one request at a time.
MaxChunk == 4
HubAnalyses == {"a1"}
HubClients == {"a1", UnknownClientId}
HubPayloads == { << Plain(1) >>, << Plain(2), Plain(1) >> }
UploadPeers == {NoNode, "nB", NoKeyNode, "nx"}
DownloadPeers == {NoNode, "nA", "nC"}

StartHub(r, node, clients, peers) ==
    \/ \E client_id \in clients, data \in HubPayloads, peer \in peers :
         StartPutIntermediate(r, node, client_id, "f1", data, peer)
    \/ \E client_id \in clients, object_id \in KnownObjectIds, peer \in peers :
         StartToHub(r, node, client_id, object_id, peer)

StartFetch(r, node, peers) ==
    \E object_id \in 1 .. (Len(bucket_files) + 1), peer \in peers,
       chunk_size \in 1 .. MaxChunk :
        StartGetIntermediate(r, node, object_id, peer, chunk_size)

FetchStep(r) ==
    \/ GetBucketFile(r)
    \/ FirstBytes(r)
    \/ Precheck(r)
    \/ Stream(r)

NextHub ==
    \/ \E r \in SeqSlots :
         \/ StartByAnalysis(r, HubAnalyses, ReadTagNames, ReadFilenames, HubPayloads)
         \/ \E client_id \in HubAnalyses, object_id \in KnownObjectIds :
              StartRetrieve(r, client_id, object_id)
         \/ StartHub(r, "nA", HubClients, UploadPeers)
         \/ StartFetch(r, "nB", DownloadPeers)
         \/ ConcStep(r)
         \/ UploadStep(r)
         \/ FetchStep(r)
    \/ \E id \in DOMAIN bucket_files : Tamper(id)

SpecHub == Init /\ [][NextHub]_vars

\* SpecPurge: analyses of two projects upload and tag, the projects are
\* deleted on the hub and the hub adapter purges them, one request at a time.
PurgeAnalyses == {"a1", "a3"}
PurgeFilenames == {"f1"}

NextPurge ==
    \/ \E r \in SeqSlots :
         \/ StartByAnalysis(r, PurgeAnalyses, ConcTagNames, PurgeFilenames, SeqPayloads)
         \/ StartByHubAdapter(r, Projects)
         \/ Step(r)
    \/ \E project_id \in Projects : HubDeleteProject(project_id)

SpecPurge == Init /\ [][NextPurge]_vars

\* SpecLedger: uploads, tagObject calls and deletions of one project, two
\* requests at a time in any interleaving.
LedgerAnalyses == {"a1"}
LedgerFilenames == {"f1", "f2"}

NextLedger ==
    \/ \E r \in Requests :
         \/ StartByAnalysis(r, LedgerAnalyses, ConcTagNames, LedgerFilenames, SeqPayloads)
         \/ StartByHubAdapter(r, SeqProjects)
         \/ Step(r)
    \/ \E project_id \in SeqProjects : HubDeleteProject(project_id)

SpecLedger == Init /\ [][NextLedger]_vars

\* SpecFail: the requests of Spec, and any call of them may fail.
NextFail ==
    \/ Next
    \/ \E r \in SeqSlots : CallFails(r)

SpecFail == Init /\ [][NextFail]_vars

\* SpecHandles: the requests of SpecHub and the runtime that finalises the
\* reads they drop.
NextHandles ==
    \/ NextHub
    \/ \E r \in SeqSlots : Finalize(r)

SpecHandles == Init /\ [][NextHandles]_vars

\* SpecPeer: node nB fetches a file that another node has stored for it
\* unit by unit, one request at a time.
NextPeer ==
    \/ PeerUpload
    \/ \E content \in Tampered(PeerFile.content) : FlipBit(content)
    \/ \E id \in DOMAIN bucket_files : Tamper(id)
    \/ \E r \in SeqSlots :
         \/ StartFetch(r, "nB", DownloadPeers)
         \/ GetNode(r)
         \/ FetchStep(r)

SpecPeer == Init /\ [][NextPeer]_vars

\* SpecUpload: node nA uploads intermediate and final results to the hub,
\* and the storage service answers an upload with no, one or two bucket
\* files; one request at a time.
ReturnedCounts == {0, 1, 2}

NextUpload ==
    \E r \in SeqSlots :
        \/ \E client_id \in HubClients, data \in HubPayloads, peer \in ReadPeers :
             StartPutIntermediate(r, "nA", client_id, "f1", data, peer)
        \/ \E client_id \in HubClients, data \in HubPayloads :
             StartPutFinal(r, "nA", client_id, "f1", data)
        \/ FindBuckets(r)
        \/ GetNode(r)
        \/ Encrypt(r)
        \/ \E count \in ReturnedCounts : UploadReply(r, count)
        \/ LinkBucketFile(r)

SpecUpload == Init /\ [][NextUpload]_vars

\* SpecFetch: node nA stores files in the hub's storage, empty or not, in
\* plain or encrypted for node nB; node nB fetches them, in plain or
\* decrypting as from a peer that may not exist or may have no public key;
\* one request at a time.
FetchPayloads == { << >>, << Plain(1) >> }
FetchUploadPeers == {NoNode, "nB"}
FetchPeers == {NoNode, "nA", NoKeyNode, "nx"}

NextFetch ==
    \E r \in SeqSlots :
        \/ \E data \in FetchPayloads, peer \in FetchUploadPeers :
             StartPutIntermediate(r, "nA", "a1", "f1", data, peer)
        \/ StartFetch(r, "nB", FetchPeers)
        \/ FindBuckets(r)
        \/ GetNode(r)
        \/ Encrypt(r)
        \/ UploadToBucket(r)
        \/ LinkBucketFile(r)
        \/ FetchStep(r)

SpecFetch == Init /\ [][NextFetch]_vars

(***************************************************************************)
(* SpecGrammar: is_valid_tag applied to one tag.                           *)
(***************************************************************************)
\* The characters the tags are drawn from: a letter, a digit, the hyphen,
\* a blank and an upper-case letter.
Alphabet == {"a", "0", "-", " ", "A"}

\* Every tag of at most this many characters is an input.
MaxShortTag == 3

\* The longest tag among the inputs.
MaxLongTag == 34

\* c repeated n times.
Repeat(c, n) == [i \in 1 .. n |-> c]

\* The tags of at most MaxShortTag characters, the tags made of a first
\* character, a run of one character and a last character, up to
\* MaxLongTag characters, runs of one character, and the tags of the tests.
TagInputs ==
    UNION { [1 .. n -> Alphabet] : n \in 0 .. MaxShortTag }
    \cup { <<first>> \o Repeat(c, n) \o <<last>> :
             first \in {"a", "-"}, c \in {"a", "-", " "},
             n \in (MiddleMax - 2) .. (MaxLongTag - 2), last \in {"a", "-"} }
    \cup { <<"r", "e", "s", "u", "l", "t", "1">>,
           <<"r", "e", "s", "u", "l", "t", "-", "1">>,
           <<"r", "e", "s", "u", "l", "t", "-", "-", "1">>,
           <<"-", "a", "b">>, <<"a", "b", "-">> }

InitGrammar ==
    /\ hub = Projects
    /\ bucket_files = << >>
    /\ objects = {}
    /\ written = {}
    /\ blobs = NoBlobs
    /\ results = {}
    /\ tags = {}
    /\ tagged_results = {}
    /\ next_object_id = 1
    /\ req = [r \in Requests |-> IdleRequest]
    /\ started = 0
    /\ tag_in \in TagInputs
    /\ tag_out = "none"

\* The call is_valid_tag(tag_in).
CallIsValidTag ==
    /\ tag_out = "none"
    /\ tag_out' = IF is_valid_tag(tag_in) THEN "valid" ELSE "invalid"
    /\ UNCHANGED << hub_vars, store_vars, ledger_vars, next_object_id, req, started,
                    tag_in >>

SpecGrammar == InitGrammar /\ [][CallIsValidTag]_vars

(***************************************************************************)
(* Properties.                                                             *)
(***************************************************************************)
Finished(r) == req[r].outcome # "none"

\* The steps of tag_object.
ResultSteps == {"result_get", "result_create", "result_reget"}
TagSteps == {"tag_get", "tag_create", "tag_reget"}
LinkSteps == {"link_get", "link_create", "link_reget"}
TagObjectSteps == {"validate"} \cup ResultSteps \cup TagSteps \cup LinkSteps

\* The request has called tag_object.
CalledTagObject(rec) ==
    /\ rec.kind \in {"upload", "tag"}
    /\ rec.has_tag
    /\ rec.pc \in TagObjectSteps \cup {"put_object", "select_result", "done"}

\* The rows of the ledger that a call of tag_object with these arguments
\* is about.
ResultRowsOf(rec) ==
    { row \in results :
        row.client_id = rec.client_id /\ row.object_id = rec.object_id }

TagRowsOf(rec) == SelectTag(rec.tag, rec.project_id)

LinkRowsOf(rec) ==
    { row \in tagged_results :
        /\ row.tag \in RowIds(TagRowsOf(rec))
        /\ row.result \in RowIds(ResultRowsOf(rec)) }

\* The grammar in words: one or two characters of [a-z0-9], or 2 to 32
\* characters of [a-z0-9-] that start and end in [a-z0-9].
GrammarOfTheClaim(t) ==
    \/ /\ Len(t) \in 1 .. 2
       /\ \A i \in 1 .. Len(t) : t[i] \in LowerAlnum
    \/ /\ Len(t) \in 2 .. 32
       /\ \A i \in 1 .. Len(t) : t[i] \in LowerAlnumHyphen
       /\ t[1] \in LowerAlnum
       /\ t[Len(t)] \in LowerAlnum

ListedValid ==
    { <<"a">>, <<"0">>,
      <<"r", "e", "s", "u", "l", "t", "-", "1">>,
      <<"r", "e", "s", "u", "l", "t", "-", "-", "1">>,
      <<"a">> \o Repeat("-", 30) \o <<"a">> }

ListedInvalid ==
    { << >>, <<" ">>, <<"-">>, <<"-", "-">>, <<"-", "a", "b">>,
      <<"a", "b", "-">>, <<"a">> \o Repeat("-", 31) \o <<"a">>,
      Repeat("a", 33) }

\* C5.  Tag grammar: is_valid_tag(t) holds exactly when t is one or two
\* characters of [a-z0-9], or 2 to 32 characters of [a-z0-9-] of which the
\* first and the last are in [a-z0-9]; the tags the claim lists as valid are
\* accepted and the ones it lists as invalid are rejected.
TagGrammar ==
    /\ ListedValid \cup ListedInvalid \subseteq TagInputs
    /\ tag_out # "none" =>
         /\ (tag_out = "valid") <=> GrammarOfTheClaim(tag_in)
         /\ tag_in \in ListedValid => tag_out = "valid"
         /\ tag_in \in ListedInvalid => tag_out = "invalid"

\* The longest listed valid tag has been accepted.
TagGrammarWitness ==
    /\ tag_out = "valid"
    /\ tag_in = <<"a">> \o Repeat("-", 30) \o <<"a">>

\* A Result row for the request's (object_id, client_id) with another
\* filename than its effective filename.
ConflictingRow(rec) ==
    \E row \in ResultRowsOf(rec) :
        row.filename # EffectiveFilename(rec.filename)

\* C2.  Tag conflict: while a Result row for (object_id, client_id) exists
\* with another filename, a step of a tag_object call for that pair with a
\* valid tag changes neither the ledger nor the object store, never leaves
\* the Result step, and ends the call only with FilenameConflict.
TagConflict ==
    [][ \A r \in Requests :
          ( /\ InFlight(r)
            /\ req[r].pc \in TagObjectSteps
            /\ is_valid_tag(req[r].tag)
            /\ ConflictingRow(req[r])
            /\ req'[r] # req[r] )
          => /\ results' = results
             /\ tags' = tags
             /\ tagged_results' = tagged_results
             /\ objects' = objects
             /\ req'[r].outcome \in {"none", "FilenameConflict"}
             /\ req'[r].outcome = "none" => req'[r].pc \in ResultSteps
      ]_vars

\* A call has failed with FilenameConflict, the existing row has kept its
\* filename and the tag of the call is new for the project.
TagConflictWitness ==
    \E r \in Requests :
        /\ req[r].outcome = "FilenameConflict"
        /\ ConflictingRow(req[r])
        /\ Cardinality(ResultRowsOf(req[r])) = 1
        /\ TagRowsOf(req[r]) = {}

\* The calls a handler makes to the object store and to the relational store.
ObjectStoreCalls == {"get_object", "put_object", "list_objects", "remove_object"}
RelationalStoreCalls ==
    ResultSteps \cup TagSteps \cup LinkSteps
    \cup {"select_result", "delete_results", "delete_tags"}

\* C6.  Invalid tags are rejected before any store is touched: a request
\* that carries an invalid tag makes no call to the object store or to the
\* relational store, and the step that ends it answers 400 (InvalidTag).
InvalidTagBeforeStores ==
    [][ \A r \in Requests :
          ( /\ InFlight(r)
            /\ req[r].kind \in {"upload", "tag"}
            /\ req[r].has_tag
            /\ ~is_valid_tag(req[r].tag)
            /\ req'[r] # req[r] )
          => /\ req[r].pc \notin ObjectStoreCalls \cup RelationalStoreCalls
             /\ req'[r].outcome \in {"none", "InvalidTag"}
      ]_vars

\* C7.  Upload ordering: every Result row is for an object whose bytes have
\* been written to the object store.
ResultRowsHaveBytes ==
    \A row \in results :
        \E name \in written : LastSegment(name) = row.object_id

\* C8.  Deletion ordering: when delete_local_results deletes from the
\* ledger, its listing is used up and no object is left under
\* local/{project_id}/.
DeletionOrdering ==
    [][ \A r \in Requests :
          ( /\ InFlight(r)
            /\ req[r].pc \in {"delete_results", "delete_tags"}
            /\ req'[r] # req[r] )
          => /\ req[r].listing = {}
             /\ ~ \E name \in objects : HasPrefix(name, req[r].project_id)
      ]_vars

\* A deletion that has removed objects and deleted their Result rows.
DeletionOrderingWitness ==
    \E r \in Requests :
        /\ req[r].kind = "delete"
        /\ req[r].pc = "delete_tags"
        /\ req[r].object_ids # {}
        /\ tags # {}

\* C10.  Post-purge state: after a successful delete_local_results for a
\* project, no object is under local/{project_id}/, no Tag row has the
\* project, and no Result row and no TaggedResult row is left for an object
\* that was stored under the project.
PostPurge ==
    \A r \in Requests :
        (req[r].kind = "delete" /\ req[r].outcome = "ok") =>
            LET project_id == req[r].project_id
                stored == { LastSegment(name) :
                              name \in { n \in written : HasPrefix(n, project_id) } }
                rows == { row \in results : row.object_id \in stored }
            IN  /\ ~ \E name \in objects : HasPrefix(name, project_id)
                /\ ~ \E row \in tags : row.project_id = project_id
                /\ rows = {}
                /\ ~ \E link \in tagged_results : link.result \in RowIds(rows)
                /\ \A link \in tagged_results :
                      ForeignKeysHold(link.tag, link.result)

\* A successful deletion after a tagged and an untagged upload.
PostPurgeWitness ==
    \E r \in Requests :
        /\ req[r].kind = "delete"
        /\ req[r].outcome = "ok"
        /\ Cardinality(req[r].object_ids) = 2

\* C3.  All-or-nothing ledger writes: a call of tag_object that has failed
\* or was interrupted leaves no Result row and no Tag row that it created
\* without the TaggedResult row that links them.
AllOrNothing ==
    \A r \in Requests :
        ( /\ CalledTagObject(req[r])
          /\ req[r].outcome \notin {"none", "ok"}
          /\ req[r].result_created \/ req[r].tag_created )
        => LinkKeyTaken(req[r].tag_row, req[r].result)

\* C9 as claimed.  Crash during deletion: an interrupted
\* delete_local_results leaves no Result row for an object it has removed.
NoRowForRemovedObject ==
    \A r \in Requests :
        (req[r].kind = "delete" /\ req[r].outcome = "aborted") =>
            ~ \E row \in results : row.object_id \in req[r].object_ids

\* C9.  Crash during deletion: an interrupted delete_local_results leaves
\* none of the objects it has taken off its listing in the object store, and
\* once it has deleted from the ledger its listing is used up and no Result
\* row is left for the objects it listed; the rows it may leave are for
\* objects that are already removed.
NoOrphanAfterCrash ==
    \A r \in Requests :
        (req[r].kind = "delete" /\ req[r].outcome = "aborted") =>
            /\ \A object_id \in req[r].object_ids :
                  ObjectName(req[r].project_id, object_id) \notin objects
            /\ req[r].pc = "delete_tags" =>
                  /\ req[r].listing = {}
                  /\ ~ \E row \in results : row.object_id \in req[r].object_ids

\* A deletion interrupted between its two ledger deletes, after it removed
\* an object.
NoOrphanAfterCrashWitness ==
    \E r \in Requests :
        /\ req[r].kind = "delete"
        /\ req[r].outcome = "aborted"
        /\ req[r].pc = "delete_tags"
        /\ req[r].object_ids # {}
        /\ tags # {}

\* Two calls of tag_object with identical arguments.
SameArguments(a, b) ==
    /\ a.tag = b.tag
    /\ a.project_id = b.project_id
    /\ a.client_id = b.client_id
    /\ a.object_id = b.object_id
    /\ a.filename = b.filename

\* tag_object has returned to the handler.
TagObjectReturned(rec) ==
    CalledTagObject(rec) /\ rec.pc \in {"put_object", "select_result", "done"}

ExactlyOneOfEach(rec) ==
    /\ Cardinality(ResultRowsOf(rec)) = 1
    /\ \A row \in ResultRowsOf(rec) :
          row.filename = EffectiveFilename(rec.filename)
    /\ Cardinality(TagRowsOf(rec)) = 1
    /\ Cardinality(LinkRowsOf(rec)) = 1

\* C1.  Tag idempotence: of two calls of tag_object with identical arguments
\* and a valid tag, with no Result row of another filename for the pair,
\* neither fails, and once one has returned there is exactly one Result row
\* for (object_id, client_id), one Tag row for (tag_name, project_id) and one
\* TaggedResult row linking them.
TagIdempotence ==
    \A r, s \in Requests :
        ( /\ r # s
          /\ CalledTagObject(req[r])
          /\ CalledTagObject(req[s])
          /\ SameArguments(req[r], req[s])
          /\ is_valid_tag(req[r].tag)
          /\ ~ConflictingRow(req[r]) )
        => /\ req[r].outcome \in {"none", "ok"}
           /\ req[s].outcome \in {"none", "ok"}
           /\ Cardinality(ResultRowsOf(req[r])) <= 1
           /\ Cardinality(TagRowsOf(req[r])) <= 1
           /\ Cardinality(LinkRowsOf(req[r])) <= 1
           /\ (TagObjectReturned(req[r]) \/ TagObjectReturned(req[s]))
                 => ExactlyOneOfEach(req[r])

\* Two identical tag requests have both succeeded.
TagIdempotenceWitness ==
    \E r, s \in Requests :
        /\ r # s
        /\ req[r].kind = "tag" /\ req[s].kind = "tag"
        /\ SameArguments(req[r], req[s])
        /\ is_valid_tag(req[r].tag)
        /\ req[r].outcome = "ok" /\ req[s].outcome = "ok"
        /\ ExactlyOneOfEach(req[r])

\* Two calls of tag_object for the same (object_id, client_id) with
\* different effective filenames.
DifferentFilenames(a, b) ==
    /\ CalledTagObject(a) /\ CalledTagObject(b)
    /\ is_valid_tag(a.tag) /\ is_valid_tag(b.tag)
    /\ a.client_id = b.client_id
    /\ a.object_id = b.object_id
    /\ EffectiveFilename(a.filename) # EffectiveFilename(b.filename)

\* C4.  Concurrent taggers: there are never two Result rows for one
\* (object_id, client_id); when two calls of tag_object for the pair with
\* different filenames have both ended, in whatever interleaving, exactly
\* one Result row exists for the pair, it has the filename of one of them,
\* that call has succeeded and the other has failed with FilenameConflict.
ConcurrentTaggers ==
    /\ \A row, other \in results :
          (row.client_id = other.client_id /\ row.object_id = other.object_id)
             => row = other
    /\ \A r, s \in Requests :
          ( /\ r # s
            /\ DifferentFilenames(req[r], req[s])
            /\ Finished(r) /\ Finished(s) )
          => /\ Cardinality(ResultRowsOf(req[r])) = 1
             /\ \A row \in ResultRowsOf(req[r]) :
                   \E q \in {r, s} :
                      /\ row.filename = EffectiveFilename(req[q].filename)
                      /\ req[q].outcome = "ok"
                      /\ \A o \in {r, s} \ {q} :
                            req[o].outcome = "FilenameConflict"

\* Two tag requests for one pair with different filenames have ended, one
\* with FilenameConflict.
ConcurrentTaggersWitness ==
    \E r, s \in Requests :
        /\ r # s
        /\ req[r].kind = "tag" /\ req[s].kind = "tag"
        /\ DifferentFilenames(req[r], req[s])
        /\ req[r].outcome = "ok"
        /\ req[s].outcome = "FilenameConflict"

\* The objects stored under local/{project_id}/.
ObjectsOf(project_id) == { name \in objects : HasPrefix(name, project_id) }

\* C11.  Deletion is restricted to the hub adapter: a delete request of
\* another client ends at once with 403, before the hub is asked for the
\* project, and the step leaves the object store and the Result, Tag and
\* TaggedResult tables as they were.
AdminOnly ==
    [][ \A r \in Requests :
          ( /\ req'[r] # req[r]
            /\ req'[r].kind = "delete"
            /\ req'[r].client_id # HubAdapterClientId )
          => /\ req'[r].outcome = "Forbidden"
             /\ req'[r].pc = "authorize"
             /\ req'[r].object_ids = {}
             /\ objects' = objects
             /\ results' = results
             /\ tags' = tags
             /\ tagged_results' = tagged_results
      ]_vars

\* A delete request of an analysis was refused for a project that is gone
\* from the hub and has objects and ledger rows.
AdminOnlyWitness ==
    \E r \in Requests :
        /\ req[r].kind = "delete"
        /\ req[r].outcome = "Forbidden"
        /\ req[r].client_id \in Analyses
        /\ req[r].project_id \notin hub
        /\ ObjectsOf(req[r].project_id) # {}
        /\ results # {} /\ tags # {} /\ tagged_results # {}

\* C12.  Deletion is gated on upstream absence: when the hub adapter's
\* delete request asks the hub and the hub still has the project, the
\* request ends with 400 and the step removes no object and deletes no
\* ledger row.
UpstreamGate ==
    [][ \A r \in Requests :
          ( /\ req'[r] # req[r]
            /\ InFlight(r)
            /\ req[r].kind = "delete"
            /\ req[r].client_id = HubAdapterClientId
            /\ req[r].pc = "get_project"
            /\ req[r].project_id \in hub )
          => /\ req'[r].outcome = "ProjectExists"
             /\ req'[r].pc = "get_project"
             /\ req'[r].object_ids = {}
             /\ objects' = objects
             /\ results' = results
             /\ tags' = tags
             /\ tagged_results' = tagged_results
      ]_vars

\* The hub adapter's delete request was refused for a project that has
\* objects and ledger rows.
UpstreamGateWitness ==
    \E r \in Requests :
        /\ req[r].kind = "delete"
        /\ req[r].outcome = "ProjectExists"
        /\ req[r].project_id \in hub
        /\ ObjectsOf(req[r].project_id) # {}
        /\ results # {} /\ tags # {} /\ tagged_results # {}

\* C13.  Untagged upload: no step of a PUT /local request without a tag
\* changes the Result, Tag or TaggedResult table, and the step that ends it
\* with 200 adds exactly one object, under local/{project_id}/, that holds
\* the uploaded bytes.
UntaggedUpload ==
    [][ \A r \in Requests :
          ( /\ req'[r] # req[r]
            /\ req'[r].kind = "upload"
            /\ ~req'[r].has_tag )
          => /\ results' = results
             /\ tags' = tags
             /\ tagged_results' = tagged_results
             /\ IF req'[r].outcome = "ok"
                THEN LET name == ObjectName(req'[r].project_id, req'[r].object_id)
                     IN  /\ name \notin objects
                         /\ objects' = objects \cup {name}
                         /\ HasPrefix(name, req'[r].project_id)
                         /\ blobs'[name] = req'[r].data
                ELSE objects' = objects
      ]_vars

\* An untagged upload has succeeded next to an object that has ledger rows.
UntaggedUploadWitness ==
    \E r \in Requests :
        /\ req[r].kind = "upload"
        /\ ~req[r].has_tag
        /\ req[r].outcome = "ok"
        /\ Cardinality(objects) = 2
        /\ Cardinality(results) = 1
        /\ Cardinality(tagged_results) = 1

\* The rows a step has added to a table.
Added(before, after) == after \ before

\* C14.  Tagged upload: a PUT /local request with a valid tag starts with
\* no Result row for its object id, each of its steps adds only rows of its
\* own (object_id, client_id), (tag, project_id) and link, and when it ends
\* with 200 after creating the Tag row it has added exactly one object under
\* local/{project_id}/, and there is exactly one Result row for the object
\* (returned object id, caller, uploaded filename), one Tag row for (tag,
\* project) and one TaggedResult row between them; the tags of the project
\* then contain the tag and its tagged results are exactly that result with
\* its filename and URL.
TaggedUpload ==
    [][ \A r \in Requests :
          ( /\ req'[r] # req[r]
            /\ req'[r].kind = "upload"
            /\ req'[r].has_tag
            /\ is_valid_tag(req'[r].tag) )
          => LET rec == req'[r]
                 name == ObjectName(rec.project_id, rec.object_id)
                 row == [ id |-> rec.result, client_id |-> rec.client_id,
                          object_id |-> rec.object_id,
                          filename |-> IF rec.filename = "" THEN "data.bin"
                                       ELSE rec.filename ]
                 tag_row == [ id |-> rec.tag_row, tag_name |-> rec.tag,
                              project_id |-> rec.project_id ]
             IN  /\ req[r].kind # "upload" =>
                       ~ \E res \in results : res.object_id = rec.object_id
                 /\ Added(results, results') \subseteq {row}
                 /\ Added(tags, tags') \subseteq {tag_row}
                 /\ \A link \in Added(tagged_results, tagged_results') :
                       link.tag = rec.tag_row /\ link.result = rec.result
                 /\ Added(objects, objects') \subseteq {name}
                 /\ rec.outcome # "ok" => objects' = objects
                 /\ (rec.outcome = "ok" /\ rec.tag_created) =>
                       /\ name \notin objects /\ name \in objects'
                       /\ HasPrefix(name, rec.project_id)
                       /\ rec.result_created
                       /\ { res \in results' : res.object_id = rec.object_id } = {row}
                       /\ { t \in tags' : t.tag_name = rec.tag
                                          /\ t.project_id = rec.project_id } = {tag_row}
                       /\ Cardinality({ link \in tagged_results' :
                                          link.result = rec.result }) = 1
                       /\ \A link \in tagged_results' :
                             link.result = rec.result => link.tag = rec.tag_row
                       /\ [ name |-> rec.tag, url |-> UrlOfTag(rec.tag) ]
                             \in TagsIn(tags', rec.project_id)
                       /\ ResultsIn(results', tagged_results', tags',
                                    rec.project_id, rec.tag) =
                             { [ filename |-> row.filename,
                                 url |-> UrlOfObject(rec.object_id) ] }
      ]_vars

\* A tagged upload under a tag that was new for the project has succeeded
\* and the tag lists exactly its result.
TaggedUploadWitness ==
    \E r \in Requests :
        /\ req[r].kind = "upload"
        /\ req[r].has_tag
        /\ req[r].outcome = "ok"
        /\ req[r].tag_created /\ req[r].result_created
        /\ req[r].filename = "f1"
        /\ ResultsByTag(req[r].project_id, req[r].tag) =
              { [ filename |-> "f1", url |-> UrlOfObject(req[r].object_id) ] }
        /\ Cardinality(objects) = 2

\* The projects under which an object with this id is stored.
ProjectsHolding(object_id) ==
    { name[2] : name \in { n \in objects : n[3] = object_id } }

\* C16.  Project-scoped visibility: GET /local/{object_id} by an analysis
\* answers 200 with the bytes of the object when an object with this id is
\* stored under the project of the analysis, whichever analysis of the
\* project uploaded it, and 404 without a byte when it is stored only under
\* another project.
ProjectScoped ==
    [][ \A r \in Requests :
          ( /\ req'[r] # req[r]
            /\ InFlight(r)
            /\ req[r].kind = "retrieve"
            /\ req[r].pc = "get_object" )
          => LET caller == ProjectOfAnalysis(req[r].client_id)
             IN  IF caller \in ProjectsHolding(req[r].object_id)
                 THEN /\ req'[r].outcome = "ok"
                      /\ req'[r].body = blobs[<< "local", caller, req[r].object_id >>]
                 ELSE /\ req'[r].outcome = "NotFound"
                      /\ req'[r].body = << >>
      ]_vars

\* An analysis of another project has asked for a stored object and got 404.
ProjectScopedWitness ==
    \E r \in Requests :
        /\ req[r].kind = "retrieve"
        /\ req[r].outcome = "NotFound"
        /\ req[r].pc = "get_object"
        /\ ProjectsHolding(req[r].object_id) # {}
        /\ ProjectOfAnalysis(req[r].client_id) \notin ProjectsHolding(req[r].object_id)

\* The bytes stored for the bucket file the request names.
StoredContent(rec) == bucket_files[rec.object_id].content

\* The key this node derives for the peer the request names.
KeyOf(rec) == SharedKey(rec.node, PublicKeyOf(rec.peer))

\* The request in slot r ends with 200 in this step.
Succeeds(r) == req[r].outcome = "none" /\ req'[r].outcome = "ok"

\* C15: when no decryption is requested, a GET /local/{object_id} and a
\* GET /intermediate/{object_id} that end with 200 have delivered exactly
\* the bytes stored for the object, in order and unchanged, ciphertext
\* included.
PlainRetrieval ==
    [][\A r \in Requests :
         /\ (Succeeds(r) /\ req'[r].kind = "retrieve") =>
              req'[r].body =
                  blobs[ObjectName(req'[r].project_id, req'[r].object_id)]
         /\ (Succeeds(r) /\ req'[r].kind = "get_intermediate"
               /\ req'[r].peer = NoNode) =>
              req'[r].body = StoredContent(req'[r])
    ]_vars

\* A plain fetch has delivered, in more than one chunk, a stored unit.
PlainRetrievalWitness ==
    \E r \in Requests :
        /\ req[r].kind = "get_intermediate"
        /\ req[r].peer = NoNode
        /\ req[r].outcome = "ok"
        /\ req[r].chunk_size < Len(req[r].body)
        /\ req[r].body[1].kind = "nonce"
        /\ req[r].body = StoredContent(req[r])

\* The pre-check of the request in slot r is about to fail: the first
\* chunk of the stored object does not authenticate under its key.
FirstUnitFails(r) ==
    /\ InFlight(r)
    /\ req[r].kind = "get_intermediate"
    /\ req[r].peer # NoNode
    /\ req[r].pc = "precheck"
    /\ ~Authenticates(KeyOf(req[r]),
                      ChunkAt(StoredContent(req[r]), 0, req[r].chunk_size))

\* C18: when decryption is requested and the first unit of the stored
\* object fails authentication under the key of this node and the named
\* peer, the request ends with DecryptionNotPossible (400), the response
\* has not started and the caller has no byte of a body.
PrecheckFidelity ==
    [][\A r \in Requests :
         (FirstUnitFails(r) /\ req'[r] # req[r]) =>
             /\ req'[r].outcome = "DecryptionNotPossible"
             /\ req'[r].body = << >>
             /\ ~ResponseStarted(req'[r])
    ]_vars

\* A fetch that names the wrong peer for a stored unit has got the 400.
PrecheckFidelityWitness ==
    \E r \in Requests :
        /\ req[r].kind = "get_intermediate"
        /\ req[r].outcome = "DecryptionNotPossible"
        /\ req[r].body = << >>
        /\ req[r].first_bytes = StoredContent(req[r])
        /\ Authenticates(SharedKey("nA", "nB"), StoredContent(req[r]))
        /\ req[r].peer = "nC"

\* C19: a fetch with decryption that does not end with 200 has started no
\* response and delivered no plaintext: a unit that fails authentication,
\* the first or a later one, is a 400 and never a part of the plaintext.
NoPartialPlaintext ==
    \A r \in Requests :
        (/\ req[r].kind = "get_intermediate"
         /\ req[r].peer # NoNode
         /\ Finished(r)
         /\ req[r].outcome # "ok") =>
            /\ req[r].body = << >>
            /\ ~ResponseStarted(req[r])

\* C20: a fetch with decryption of a stored object that is a unit
\* encrypted between this node and the named peer ends with 200 and the
\* plaintext of the unit, whatever the chunk size of the transport.
IntendedPeerDecrypts ==
    \A r \in Requests :
        (/\ req[r].kind = "get_intermediate"
         /\ req[r].peer \in Nodes
         /\ PublicKeyOf(req[r].peer) # ""
         /\ Finished(r)
         /\ req[r].object_id \in DOMAIN bucket_files
         /\ Authenticates(KeyOf(req[r]), StoredContent(req[r]))) =>
            /\ req[r].outcome = "ok"
            /\ req[r].body = decrypt_default(req[r].node, PublicKeyOf(req[r].peer),
                                             StoredContent(req[r]))

\* The hub has the analysis of the caller.
HubHasAnalysis(client_id) ==
    client_id \in Analyses /\ ProjectOfAnalysis(client_id) \in hub

\* The handlers of /local that resolve the project of the caller.
ResolvingKinds ==
    {"upload", "get_tags", "get_results", "tag", "retrieve", "to_hub"}

\* A request arrives in slot r in this step.
Arrives(r) == Free(r) /\ req'[r] # req[r]

\* C17: on every endpoint of /local that resolves the project of the
\* caller, a request of a client_id for which the hub has no analysis ends
\* with 404 on arrival: the handler has made no call to the object store,
\* the relational store or the hub's storage, and none of them has changed.
UnknownAnalysis ==
    [][\A r \in Requests :
         (/\ Arrives(r)
          /\ req'[r].kind \in ResolvingKinds
          /\ ~HubHasAnalysis(req'[r].client_id)) =>
             /\ req'[r].outcome = "NotFound"
             /\ req'[r].pc = "resolve"
             /\ UNCHANGED << store_vars, ledger_vars, bucket_files, next_object_id >>
    ]_vars

\* An unknown client has asked to send an object to the hub while the
\* stores hold an object and its rows.
UnknownAnalysisWitness ==
    \E r \in Requests :
        /\ req[r].kind = "to_hub"
        /\ req[r].client_id = UnknownClientId
        /\ req[r].outcome = "NotFound"
        /\ req[r].object_id \in KnownObjectIds
        /\ objects # {}
        /\ results # {}

\* What the decrypting loop has to deliver for the content from the
\* offset on: the plaintext of every chunk, in the order of the stream.
RECURSIVE PlaintextFrom(_, _, _, _)
PlaintextFrom(rec, content, offset, chunk_size) ==
    IF offset >= Len(content)
    THEN << >>
    ELSE LET b == ChunkAt(content, offset, chunk_size)
         IN  decrypt_default(rec.node, PublicKeyOf(rec.peer), b)
               \o PlaintextFrom(rec, content, offset + Len(b), chunk_size)

\* The request in slot r, a fetch with decryption, takes a step.
DecryptingFetchSteps(r) ==
    /\ InFlight(r)
    /\ req[r].kind = "get_intermediate"
    /\ req[r].peer # NoNode
    /\ req'[r] # req[r]

\* C21: once the pre-check has succeeded the response read starts at the
\* first unit with nothing delivered; every round of the loop delivers the
\* plaintext of the next chunk of the stream, once, behind what was
\* delivered before; and a response that ends with 200 is the plaintext of
\* all chunks of the object from the first on, in order.
StreamAfterPrecheck ==
    [][\A r \in Requests :
         DecryptingFetchSteps(r) =>
             /\ (req[r].pc = "precheck" /\ req'[r].pc = "stream") =>
                    req'[r].offset = 0 /\ req'[r].body = << >>
             /\ (req[r].pc = "stream" /\ req'[r].outcome = "none") =>
                    LET b == ChunkAt(StoredContent(req[r]), req[r].offset,
                                     req[r].chunk_size)
                    IN  /\ Authenticates(KeyOf(req[r]), b)
                        /\ req'[r].body =
                               req[r].body \o decrypt_default(req[r].node,
                                                              PublicKeyOf(req[r].peer), b)
                        /\ req'[r].offset = req[r].offset + Len(b)
             /\ Succeeds(r) =>
                    req'[r].body = PlaintextFrom(req[r], StoredContent(req[r]), 0,
                                                 req[r].chunk_size)
    ]_vars

\* The peer's file of two units has been fetched unit by unit: both
\* plaintexts have arrived, the first one first and once.
StreamAfterPrecheckWitness ==
    \E r \in Requests :
        /\ req[r].kind = "get_intermediate"
        /\ req[r].peer = "nA"
        /\ req[r].outcome = "ok"
        /\ bucket_files[req[r].object_id] = PeerFile
        /\ req[r].chunk_size < Len(PeerFile.content)
        /\ req[r].body = << Plain(1), Plain(2) >>

\* The owners of the key pairs and the plaintexts of the codec checks.
KeyOwners == {"nA", "nB", "nC"}
CodecPlaintexts == { << >>, << Plain(1) >>, << Plain(2), Plain(1) >> }

\* decryptUnit(deriveSharedKey(B_priv, A_pub), encryptUnit(deriveSharedKey(A_priv, B_pub), P)) = P
CodecRoundTrip ==
    \A a \in KeyOwners, b \in KeyOwners, plaintext \in CodecPlaintexts :
        LET unit == encrypt_default(a, b, 1, plaintext)
        IN  /\ Authenticates(SharedKey(b, a), unit)
            /\ decrypt_default(b, a, unit) = plaintext

\* The request in slot r is an upload with remote_node_id at the call pc.
EncryptedUploadAt(r, pc) ==
    /\ InFlight(r)
    /\ req[r].kind \in {"put_intermediate", "to_hub"}
    /\ req[r].peer # NoNode
    /\ req[r].pc = pc
    /\ req'[r] # req[r]

\* C22: a unit encrypted with the key of (A_priv, B_pub) decrypts with the
\* key of (B_priv, A_pub) to its plaintext.  In the service: what an upload
\* with remote_node_id = B encrypts, B decrypts with its private key and
\* this node's public key to the file; these are the bytes the upload
\* stores; and B's fetch of them in one chunk returns the file.
RoundTrip ==
    [][/\ CodecRoundTrip
       /\ \A r \in Requests :
            /\ EncryptedUploadAt(r, "encrypt") =>
                   /\ Authenticates(SharedKey(req[r].peer, PublicKeyOf(req[r].node)),
                                    req'[r].data)
                   /\ decrypt_default(req[r].peer, PublicKeyOf(req[r].node),
                                      req'[r].data) = req[r].data
            /\ EncryptedUploadAt(r, "upload_to_bucket") =>
                   bucket_files'[req'[r].object_id].content = req[r].data
            /\ (/\ Succeeds(r)
                /\ req[r].kind = "get_intermediate"
                /\ req[r].peer # NoNode
                /\ Authenticates(KeyOf(req[r]), StoredContent(req[r]))) =>
                   req'[r].body = decrypt_default(req[r].node, PublicKeyOf(req[r].peer),
                                                  StoredContent(req[r]))
    ]_vars

\* Node nB has fetched and decrypted the file that node nA uploaded for it.
RoundTripWitness ==
    \E r \in Requests :
        /\ req[r].kind = "get_intermediate"
        /\ req[r].node = "nB"
        /\ req[r].peer = "nA"
        /\ req[r].outcome = "ok"
        /\ StoredContent(req[r]) = encrypt_default("nA", "nB", 1, << Plain(1) >>)
        /\ req[r].body = << Plain(1) >>

\* Decrypting a unit that was encrypted for peer B with the key derived
\* against another peer C fails.
CodecWrongKey ==
    \A a \in KeyOwners, b \in KeyOwners, plaintext \in CodecPlaintexts :
      \A c \in KeyOwners \ {a} :
        ~Authenticates(SharedKey(b, c), encrypt_default(a, b, 1, plaintext))

\* The bytes are encrypted, and none of them under the key.
UnderOtherKey(key, content) ==
    /\ \E i \in 1 .. Len(content) : content[i].kind = "tag"
    /\ \A i \in 1 .. Len(content) :
         content[i].kind \in {"cipher", "tag"} => content[i].key # key

\* The request is a fetch that names a node with a public key, of an
\* object that is encrypted under another key than the one of that node
\* and this one.
WrongPeer(rec) ==
    /\ rec.kind = "get_intermediate"
    /\ rec.peer \in Nodes
    /\ PublicKeyOf(rec.peer) # ""
    /\ rec.object_id \in DOMAIN bucket_files
    /\ UnderOtherKey(KeyOf(rec), StoredContent(rec))

\* C23: a unit encrypted for peer B does not decrypt with the key derived
\* against another peer C.  In the service: a fetch of an object encrypted
\* between two nodes, with node_id naming a node with an unrelated key,
\* starts no response and delivers no byte while it runs, and ends with
\* DecryptionNotPossible (400).
WrongKeyRejection ==
    /\ CodecWrongKey
    /\ \A r \in Requests :
         WrongPeer(req[r]) =>
             /\ req[r].body = << >>
             /\ ~ResponseStarted(req[r])
             /\ Finished(r) => req[r].outcome = "DecryptionNotPossible"

\* Node nB has asked for the file that nA encrypted for it as if nC had
\* sent it, and has got the 400.
WrongKeyRejectionWitness ==
    \E r \in Requests :
        /\ WrongPeer(req[r])
        /\ req[r].node = "nB"
        /\ req[r].peer = "nC"
        /\ Finished(r)
        /\ Authenticates(SharedKey("nB", "nA"), StoredContent(req[r]))
        /\ req[r].chunk_size >= Len(StoredContent(req[r]))

\* Changing one bit of the ciphertext or of the tag of a unit makes its
\* decryption with the right key fail.
CodecTamper ==
    \A a \in KeyOwners, b \in KeyOwners, plaintext \in CodecPlaintexts :
        \A unit \in Tampered(encrypt_default(a, b, 1, plaintext)) :
            ~Authenticates(SharedKey(b, a), unit)

\* s is the beginning of t.
IsPrefix(s, t) == Len(s) <= Len(t) /\ s = SubSeq(t, 1, Len(s))

\* The request fetches, as node nB from node nA, the other node's file
\* with one bit of it changed.
FetchesTampered(rec) ==
    /\ rec.kind = "get_intermediate"
    /\ rec.node = "nB"
    /\ rec.peer = "nA"
    /\ rec.object_id \in DOMAIN bucket_files
    /\ \E content \in Tampered(PeerFile.content) :
         IsPrefix(content, StoredContent(rec))

\* C24: a unit with one bit of its ciphertext or of its tag changed does
\* not decrypt with the right key.  In the service: the right peer's fetch
\* of a file with such a unit never ends with 200, and what it has
\* delivered is never anything but plaintext that was encrypted: the
\* beginning of the file's plaintext.
TamperDetection ==
    /\ CodecTamper
    /\ \A r \in Requests :
         FetchesTampered(req[r]) =>
             /\ req[r].outcome # "ok"
             /\ IsPrefix(req[r].body, << Plain(1), Plain(2) >>)
             /\ Len(req[r].body) < 2

\* The right peer has fetched, unit by unit, the file with a bit of its
\* second unit changed: the fetch has ended at that unit.
TamperDetectionWitness ==
    \E r \in Requests :
        /\ FetchesTampered(req[r])
        /\ SubSeq(StoredContent(req[r]), 1, 3) = SubSeq(PeerFile.content, 1, 3)
        /\ req[r].chunk_size = 3
        /\ req[r].offset = 3
        /\ Finished(r)

\* C25: a request that has ended holds no read handle: every response of
\* the object store and every stream of the hub that it opened is read to
\* its end or closed.
HandlesReleased ==
    \A r \in Requests : Finished(r) => req[r].handles = {}

\* The request in slot r, a PUT /intermediate, takes the step at the call pc.
PutIntermediateAt(r, pc) ==
    /\ InFlight(r)
    /\ req[r].kind = "put_intermediate"
    /\ req[r].pc = pc
    /\ req'[r] # req[r]

\* The request has failed and the hub's storage is as before.
FailsWithoutUpload(r, outcome) ==
    /\ req'[r].outcome = outcome
    /\ req'[r].object_id = 0
    /\ UNCHANGED bucket_files

\* C26: PUT /intermediate ends with 404 when the analysis has no TEMP
\* bucket, with 404 when remote_node_id names no node and with 400 when the
\* node has no public key, each time before a file is uploaded or linked;
\* and what an upload with remote_node_id stores has no plaintext byte.
UploadFailsEarly ==
    [][\A r \in Requests :
         /\ (PutIntermediateAt(r, "find_buckets") /\ ~HasTempBucket(req[r].client_id)) =>
                FailsWithoutUpload(r, "NotFound")
         /\ (PutIntermediateAt(r, "get_node") /\ req[r].peer \notin Nodes) =>
                FailsWithoutUpload(r, "NotFound")
         /\ (PutIntermediateAt(r, "get_node") /\ req[r].peer = NoKeyNode) =>
                FailsWithoutUpload(r, "NoPublicKey")
         /\ (PutIntermediateAt(r, "upload_to_bucket") /\ req[r].peer # NoNode) =>
                LET content == bucket_files'[req'[r].object_id].content
                IN  \A i \in 1 .. Len(content) : content[i].kind # "plain"
    ]_vars

\* An upload for a node without a public key has got the 400 and the hub's
\* storage holds no file of it.
UploadFailsEarlyWitness ==
    \E r \in Requests :
        /\ req[r].kind = "put_intermediate"
        /\ req[r].peer = NoKeyNode
        /\ req[r].outcome = "NoPublicKey"
        /\ \A id \in DOMAIN bucket_files : bucket_files[id].content # req[r].data

\* C27: a request of which a call to the hub, to the object store or to
\* the relational store has failed ends with UpstreamUnavailable (502).
UpstreamFailuresAre502 ==
    \A r \in Requests :
        req[r].failed_call # "" => req[r].outcome = "UpstreamUnavailable"

\* C28: in every state there is at most one Result row for an
\* (object_id, client_id), at most one Tag row for a (tag_name, project_id)
\* and at most one TaggedResult row for a (tag, result).
LedgerUniqueness ==
    /\ \A a \in results, b \in results :
         (a.object_id = b.object_id /\ a.client_id = b.client_id) => a = b
    /\ \A a \in tags, b \in tags :
         (a.tag_name = b.tag_name /\ a.project_id = b.project_id) => a = b
    /\ \A a \in tagged_results, b \in tagged_results :
         (a.tag = b.tag /\ a.result = b.result) => a = b

\* Two requests are past their lookup of the same Result row, which one
\* of them has inserted, and the other is about to insert it too.
LedgerUniquenessWitness ==
    \E r \in Requests, q \in Requests :
        /\ q # r
        /\ InFlight(r)
        /\ req[r].pc = "result_create"
        /\ req[q].kind = "tag"
        /\ req[q].result_created
        /\ req[q].object_id = req[r].object_id
        /\ req[q].client_id = req[r].client_id
        /\ ResultKeyTaken(req[r].client_id, req[r].object_id)

\* C29: in every state every TaggedResult row refers to a Tag row and to
\* a Result row that exist; the rows that referred to a Tag or a Result
\* that a deletion has removed are gone with it.
ReferentialIntegrity ==
    \A link \in tagged_results :
        /\ link.tag \in RowIds(tags)
        /\ link.result \in RowIds(results)

\* A deletion has removed the Result rows of the project, and the links of
\* its Tag rows with them, and is about to remove the Tag rows.
ReferentialIntegrityWitness ==
    \E r \in Requests :
        /\ InFlight(r)
        /\ req[r].kind = "delete"
        /\ req[r].pc = "delete_tags"
        /\ req[r].object_ids # {}
        /\ \E row \in tags : row.project_id = req[r].project_id
        /\ results = {}
        /\ tagged_results = {}
        /\ \A q \in Requests : q # r => Free(q)

\* The request in slot r, a deletion, makes the call pc in this step.
DeletionAt(r, pc) ==
    /\ InFlight(r)
    /\ req[r].kind = "delete"
    /\ req[r].pc = pc
    /\ req'[r] # req[r]

\* C30: no step changes the object_id, the client_id or the filename of a
\* Result row; a Result row disappears only in the Result deletion of a
\* delete_local_results that has removed its object, and a Tag row only in
\* the Tag deletion of a delete_local_results for the project of the row.
ResultsImmutable ==
    [][/\ \A before \in results, after \in results' :
            before.id = after.id => before = after
       /\ \A row \in results \ results' :
            \E r \in Requests :
                DeletionAt(r, "delete_results") /\ row.object_id \in req[r].object_ids
       /\ \A row \in tags \ tags' :
            \E r \in Requests :
                DeletionAt(r, "delete_tags") /\ row.project_id = req[r].project_id
    ]_vars

\* A deletion for project p1 has ended; the Result and Tag rows of
\* project p2 are there as before and those of p1 are gone.
ResultsImmutableWitness ==
    \E r \in Requests :
        /\ req[r].kind = "delete"
        /\ req[r].project_id = "p1"
        /\ req[r].outcome = "ok"
        /\ req[r].object_ids # {}
        /\ \E row \in tags : row.project_id = "p2"
        /\ \E row \in results : row.client_id = "a3"
        /\ \A row \in tags : row.project_id # "p1"
        /\ \A row \in results : row.client_id # "a1"

\* The ledger and the object store as one value.
LedgerAndStore == << results, tags, tagged_results, objects, blobs >>

\* The Result rows that a TaggedResult row links to the Tag row with this
\* name in this project.
LinkedResults(project_id, tag_name) ==
    { res \in results :
        \E t \in tags, link \in tagged_results :
            /\ t.tag_name = tag_name
            /\ t.project_id = project_id
            /\ link.tag = t.id
            /\ link.result = res.id }

\* C31.  Ledger reads are pure and scoped: get_project_tags answers 200 with
\* exactly the Tag rows of the caller's project and
\* get_results_by_project_tag answers 200 with exactly the Results linked to
\* the Tag (tag_name, caller's project), an empty list when nothing matches,
\* also for a tag name that only another project has; neither changes the
\* ledger or the object store.
LedgerReads ==
    [][ \A r \in Requests :
          ( /\ req'[r] # req[r]
            /\ InFlight(r)
            /\ req[r].pc \in {"select_tags", "select_tagged"} )
          => LET caller == ProjectOfAnalysis(req[r].client_id)
                 items == req'[r].response
             IN  /\ req'[r].outcome = "ok"
                 /\ LedgerAndStore' = LedgerAndStore
                 /\ req[r].pc = "select_tags"
                      => /\ \A item \in items :
                              /\ item.url = UrlOfTag(item.name)
                              /\ \E t \in tags : /\ t.project_id = caller
                                                 /\ t.tag_name = item.name
                         /\ \A t \in tags :
                              t.project_id = caller
                                => \E item \in items : item.name = t.tag_name
                 /\ req[r].pc = "select_tagged"
                      => /\ \A item \in items :
                              \E res \in LinkedResults(caller, req[r].tag) :
                                  /\ item.filename = res.filename
                                  /\ item.url = UrlOfObject(res.object_id)
                         /\ \A res \in LinkedResults(caller, req[r].tag) :
                              \E item \in items :
                                  /\ item.filename = res.filename
                                  /\ item.url = UrlOfObject(res.object_id)
      ]_vars

\* An analysis has asked for the results of a tag name that only another
\* project has, with a result linked to it there, and got the empty list.
LedgerReadsWitness ==
    \E r \in Requests :
        /\ req[r].kind = "get_results"
        /\ req[r].outcome = "ok"
        /\ req[r].response = {}
        /\ \E t \in tags : /\ t.tag_name = req[r].tag
                           /\ t.project_id # req[r].project_id
                           /\ \E link \in tagged_results : link.tag = t.id
        /\ \A t \in tags : t.project_id # req[r].project_id

\* Two tagObject requests with the same tag_name, project, client, object
\* and filename, both past the check that the object exists.
IdenticalTaggers(r, s) ==
    /\ r # s
    /\ req[r].kind = "tag" /\ req[s].kind = "tag"
    /\ CalledTagObject(req[r]) /\ CalledTagObject(req[s])
    /\ SameArguments(req[r], req[s])
    /\ is_valid_tag(req[r].tag)

\* C32.  Concurrent identical taggers: when two requests issue the same
\* tagging request (same tag_name, project_id, client_id, object_id,
\* filename; no Result row of another filename for the pair), in any
\* interleaving of their create-if-absent steps, none of them fails, at
\* most one of them inserts each row, and when both have ended both have
\* succeeded on the same rows and the ledger has exactly one Result, one Tag
\* and one TaggedResult row for the request.
IdenticalConcurrentTaggers ==
    \A r, s \in Requests :
        (IdenticalTaggers(r, s) /\ ~ConflictingRow(req[r]))
        => /\ req[r].outcome \in {"none", "ok"}
           /\ ~(req[r].result_created /\ req[s].result_created)
           /\ ~(req[r].tag_created /\ req[s].tag_created)
           /\ (Finished(r) /\ Finished(s))
                 => /\ req[r].outcome = "ok" /\ req[s].outcome = "ok"
                    /\ req[r].result = req[s].result
                    /\ req[r].tag_row = req[s].tag_row
                    /\ ResultRowsOf(req[r]) =
                         { [ id |-> req[r].result,
                             client_id |-> req[r].client_id,
                             object_id |-> req[r].object_id,
                             filename |-> EffectiveFilename(req[r].filename) ] }
                    /\ TagRowsOf(req[r]) =
                         { [ id |-> req[r].tag_row, tag_name |-> req[r].tag,
                             project_id |-> req[r].project_id ] }
                    /\ Cardinality(LinkRowsOf(req[r])) = 1

\* Two identical tagObject requests have interleaved and both succeeded:
\* one has inserted the Result row, the other the Tag row.
IdenticalConcurrentTaggersWitness ==
    \E r, s \in Requests :
        /\ IdenticalTaggers(r, s)
        /\ req[r].outcome = "ok" /\ req[s].outcome = "ok"
        /\ req[r].result_created /\ ~req[r].tag_created
        /\ req[s].tag_created /\ ~req[s].result_created
        /\ Cardinality(tagged_results) = 1

\* The node that node_id names cannot be resolved to a public key: the hub
\* has no such node (404) or the node has no public key (400).
UnresolvablePeer(peer) ==
    peer # NoNode /\ (peer \notin Nodes \/ PublicKeyOf(peer) = "")

\* C33.  Pre-check step order: when decryption is requested, the peer's
\* public key is resolved before the first unit is read from the stream, so
\* a request whose node_id names no node or a node without a public key has
\* read nothing of the stored object, has sent no byte, and ends only with
\* the 404 or 400 of the node (or the 404 of a missing object).
KeyBeforeFirstUnit ==
    \A r \in Requests :
        (req[r].kind = "get_intermediate" /\ UnresolvablePeer(req[r].peer))
        => /\ req[r].first_bytes = << >>
           /\ req[r].body = << >>
           /\ req[r].outcome \in {"none", "NotFound", "NoPublicKey"}

\* The handlers that upload a file to the hub.
UploadKinds == {"put_intermediate", "put_final", "to_hub"}

\* The bucket files that get linked to an analysis in the step.
NewlyLinked ==
    { id \in DOMAIN bucket_files :
        bucket_files'[id].linked /\ ~bucket_files[id].linked }

\* C34.  Unexpected upload result: in the intermediate and final upload
\* handlers, when the hub storage returns a number of uploaded files other
\* than one, the request ends with 502 and none of the files is linked to
\* the analysis; the handler reaches its link step only from an upload that
\* returned exactly one bucket file, and a file is linked only by the link
\* step of the request it was returned to.
UnexpectedUploadResult ==
    [][ /\ \A r \in Requests :
             ( /\ req'[r] # req[r]
               /\ InFlight(r)
               /\ req[r].kind \in UploadKinds
               /\ req[r].pc = "upload_to_bucket" )
             => LET returned == Len(bucket_files') - Len(bucket_files)
                IN  /\ NewlyLinked = {}
                    /\ \A id \in (Len(bucket_files) + 1) .. Len(bucket_files') :
                          ~bucket_files'[id].linked
                    /\ IF returned = 1
                       THEN /\ req'[r].outcome = "none"
                            /\ req'[r].pc = "link"
                            /\ req'[r].object_id = Len(bucket_files')
                       ELSE /\ req'[r].outcome = "UpstreamUnavailable"
                            /\ req'[r].pc # "link"
        /\ \A r \in Requests :
             (req'[r].pc = "link" /\ req[r].pc # "link")
             => /\ req[r].pc = "upload_to_bucket"
                /\ Len(bucket_files') = Len(bucket_files) + 1
        /\ \A id \in NewlyLinked :
             \E r \in Requests :
                 /\ InFlight(r)
                 /\ req[r].pc = "link"
                 /\ req[r].object_id = id
                 /\ req'[r].outcome = "ok"
      ]_vars

\* A final upload has ended with 502 after the storage returned two bucket
\* files, and neither of them is linked.
UnexpectedUploadResultWitness ==
    \E r \in Requests :
        /\ req[r].kind = "put_final"
        /\ req[r].outcome = "UpstreamUnavailable"
        /\ req[r].pc = "upload_to_bucket"
        /\ Len(bucket_files) = 2
        /\ \A id \in DOMAIN bucket_files :
              ~bucket_files[id].linked /\ bucket_files[id].content = req[r].data

\* The Result rows of the ledger for the object and the caller.
RowsFor(object_id, client_id) ==
    { row \in results : row.object_id = object_id /\ row.client_id = client_id }

\* C35.  Upload of a local file to the hub: no step of a PUT /local/upload
\* request changes the object store or the ledger, so that a later GET
\* /local/{object_id} still returns the original bytes, and its upload step
\* stores one bucket file that holds the bytes of the local object (as
\* they are, or such that the peer decrypts them to these bytes) under the
\* filename of the Result row for (object_id, client_id) when exactly one
\* such row exists and under str(object_id) otherwise.
LocalFileToHub ==
    [][ \A r \in Requests :
          ( /\ req'[r] # req[r]
            /\ InFlight(r)
            /\ req[r].kind = "to_hub" )
          => /\ LedgerAndStore' = LedgerAndStore
             /\ req[r].pc = "upload_to_bucket"
                  => LET local == << "local", ProjectOfAnalysis(req[r].client_id),
                                     req[r].object_id >>
                         rows == RowsFor(req[r].object_id, req[r].client_id)
                         file == bucket_files'[Len(bucket_files')]
                     IN  /\ Len(bucket_files') = Len(bucket_files) + 1
                         /\ local \in objects
                         /\ file.name = IF Cardinality(rows) = 1
                                        THEN (CHOOSE row \in rows : TRUE).filename
                                        ELSE ToString(req[r].object_id)
                         /\ IF req[r].peer = NoNode
                            THEN file.content = blobs[local]
                            ELSE decrypt_default(req[r].peer, req[r].node,
                                                 file.content) = blobs[local]
      ]_vars

\* An analysis has sent an object to the hub that another analysis of its
\* project has uploaded with a filename: the bucket file is named after the
\* object id; the object and the other's Result row are still there.
LocalFileToHubWitness ==
    \E r \in Requests :
        /\ req[r].kind = "to_hub"
        /\ req[r].outcome = "ok"
        /\ req[r].client_id = "a2"
        /\ bucket_files[req[r].object_id].name = "1"
        /\ bucket_files[req[r].object_id].content = blobs[<< "local", "p1", 1 >>]
        /\ \E row \in results :
              /\ row.object_id = 1
              /\ row.client_id = "a1"
              /\ row.filename = "f1"

\* The filenames recorded for the pair of the call.
RecordedFilenames(rec) == { row.filename : row \in ResultRowsOf(rec) }

\* A call of tag_object with a valid tag that names no filename, or names
\* the placeholder.
DefaultCall(rec) ==
    /\ CalledTagObject(rec)
    /\ is_valid_tag(rec.tag)
    /\ rec.filename \in {"", "data.bin"}

\* C36.  Default filename: a tag_object call without a filename (or with an
\* empty one) records its Result under the placeholder "data.bin"; while
\* the pair is recorded under "data.bin", a call without a filename or with
\* filename "data.bin" never fails and adds no Result row (idempotent); and
\* while the pair is recorded under another filename, a call without a
\* filename changes no table and can only end with FilenameConflict.
DefaultFilename ==
    [][ \A r \in Requests :
          ( /\ req'[r] # req[r]
            /\ InFlight(r)
            /\ req[r].pc \in TagObjectSteps
            /\ DefaultCall(req[r]) )
          => /\ \A row \in results' \ results : row.filename = "data.bin"
             /\ RecordedFilenames(req[r]) = {"data.bin"}
                  => /\ results' = results
                     /\ req'[r].outcome \in {"none", "ok"}
             /\ ( /\ req[r].filename = ""
                  /\ RecordedFilenames(req[r]) # {}
                  /\ RecordedFilenames(req[r]) # {"data.bin"} )
                  => /\ results' = results
                     /\ tags' = tags
                     /\ tagged_results' = tagged_results
                     /\ req'[r].outcome \in {"none", "FilenameConflict"}
                     /\ req'[r].pc \in ResultSteps
      ]_vars

\* An object was tagged without a filename and then again with filename
\* "data.bin": both calls have succeeded on the one Result row, which the
\* first has created under "data.bin".
DefaultFilenameWitness ==
    \E r, s \in Requests :
        /\ req[r].kind = "tag" /\ req[s].kind = "tag"
        /\ req[r].filename = "" /\ req[s].filename = "data.bin"
        /\ req[r].object_id = req[s].object_id
        /\ req[r].outcome = "ok" /\ req[s].outcome = "ok"
        /\ req[r].result_created /\ ~req[s].result_created
        /\ req[r].result = req[s].result
        /\ RecordedFilenames(req[r]) = {"data.bin"}
        /\ Cardinality(tagged_results) = 1

\* The rows of the ledger that belong to the project: its Tag rows and the
\* Result rows of its analyses.
LedgerRowsOf(project_id) ==
    { row \in tags : row.project_id = project_id }
        \cup { row \in results : ProjectOfAnalysis(row.client_id) = project_id }

\* C37.  Purge is final under concurrency: once delete_local_results for a
\* project has returned success, the prefix local/{project_id}/ of the
\* object store and the ledger rows of the project are empty and stay so,
\* also while an upload for an analysis of the project that resolved its
\* project before the hub removed it is still in flight.
PurgeIsFinal ==
    \A r \in Requests :
        (req[r].kind = "delete" /\ req[r].outcome = "ok")
        => /\ ObjectsOf(req[r].project_id) = {}
           /\ LedgerRowsOf(req[r].project_id) = {}

\* What a project holds: its objects with their bytes, its Tag rows, the
\* Result rows of its analyses and the TaggedResult rows on either.
ProjectState(project_id) ==
    LET names == { name \in objects : name[2] = project_id }
        tag_rows == { row \in tags : row.project_id = project_id }
        result_rows == { row \in results :
                           ProjectOfAnalysis(row.client_id) = project_id }
    IN  << names, [ name \in names |-> blobs[name] ], tag_rows, result_rows,
           { link \in tagged_results :
               link.tag \in RowIds(tag_rows) \/ link.result \in RowIds(result_rows) } >>

\* C38.  Purge frame: no step of delete_local_results for a project removes
\* an object outside local/{project_id}/, a Tag row of another project, or
\* a Result or TaggedResult row of an object stored under another project:
\* what every other project holds is unchanged by the step.
PurgeFrame ==
    [][ \A r \in Requests :
          ( /\ req'[r] # req[r]
            /\ InFlight(r)
            /\ req[r].kind = "delete" )
          => \A other \in Projects \ {req[r].project_id} :
                ProjectState(other)' = ProjectState(other)
      ]_vars

\* Project p1 has been purged of an object and its rows while p2 holds an
\* object, a Tag row, a Result row and the link between them.
PurgeFrameWitness ==
    \E r \in Requests :
        /\ req[r].kind = "delete"
        /\ req[r].outcome = "ok"
        /\ req[r].project_id = "p1"
        /\ req[r].object_ids # {}
        /\ ProjectState("p1") = << {}, << >>, {}, {}, {} >>
        /\ \E name \in objects : name[2] = "p2"
        /\ \E link \in tagged_results, t \in tags, res \in results :
              /\ link.tag = t.id /\ link.result = res.id
              /\ t.project_id = "p2" /\ res.client_id = "a3"

\* The object the tagObject request names is stored under the prefix of the
\* caller's project.
StoredForCaller(rec) ==
    << "local", ProjectOfAnalysis(rec.client_id), rec.object_id >> \in objects

\* C39.  Tagging requires the object to exist in the caller's project: a
\* POST /local/tags request for an object_id that is not stored under
\* local/{caller's project}/ ends with 404 at its first call after the
\* project is resolved and changes no table; a step of such a request that
\* inserts a row finds the object stored there, and every TaggedResult row
\* it inserts links a Tag row of the caller's project to the Result row of
\* the caller for that object.
TagNeedsObject ==
    [][ \A r \in Requests :
          ( /\ req'[r] # req[r]
            /\ InFlight(r)
            /\ req[r].kind = "tag" )
          => /\ ~StoredForCaller(req[r])
                  => /\ req'[r].outcome = "NotFound"
                     /\ results' = results
                     /\ tags' = tags
                     /\ tagged_results' = tagged_results
             /\ \A link \in tagged_results' \ tagged_results :
                   /\ StoredForCaller(req[r])
                   /\ \E t \in tags, res \in results :
                         /\ t.id = link.tag
                         /\ res.id = link.result
                         /\ t.project_id = ProjectOfAnalysis(req[r].client_id)
                         /\ t.tag_name = req[r].tag
                         /\ res.object_id = req[r].object_id
                         /\ res.client_id = req[r].client_id
      ]_vars

\* An analysis of project p2 has asked to tag an object that is stored
\* under p1 only and got 404; the ledger is empty.
TagNeedsObjectWitness ==
    \E r \in Requests :
        /\ req[r].kind = "tag"
        /\ req[r].client_id = "a3"
        /\ req[r].outcome = "NotFound"
        /\ req[r].pc = "get_object"
        /\ << "local", "p1", req[r].object_id >> \in objects
        /\ results = {} /\ tags = {} /\ tagged_results = {}

\* A request that asks for a bucket file that exists, decrypted as from the
\* node that node_id names.
DecryptingFetch(rec) ==
    /\ rec.kind = "get_intermediate"
    /\ rec.peer # NoNode
    /\ rec.object_id \in DOMAIN bucket_files

\* C40.  Decrypting fetch always ends in a defined outcome: a GET
\* /intermediate/{object_id}?node_id=... for an existing object ends in a
\* decrypted stream, in 400 DecryptionNotPossible, or in the 404 or 400 of a
\* node_id that cannot be resolved, and in nothing else, also for an empty
\* object and for an object stored unencrypted.
DefinedOutcome ==
    \A r \in Requests :
        (DecryptingFetch(req[r]) /\ Finished(r))
        => /\ req[r].outcome \in {"ok", "DecryptionNotPossible", "NotFound", "NoPublicKey"}
           /\ req[r].outcome \in {"NotFound", "NoPublicKey"}
                 => UnresolvablePeer(req[r].peer)

====
